---- MODULE Spec2Model ----
(***************************************************************************)
(* Deposit ingestion and conversion pipeline of cryptotoken-converter:     *)
(* the Celery tasks of payments/tasks.py, the conversion engine of         *)
(* payments/lib/ConvertCore.py, the result handlers of                     *)
(* payments/lib/task_helpers.py, the operator refund of payments/admin.py  *)
(* and the scanner's import_batch.                                         *)
(***************************************************************************)
EXTENDS Naturals, Integers, Sequences, FiniteSets, TLC

(***************************************************************************)
(* Bounds of the model.                                                    *)
(***************************************************************************)
\* number of Celery tasks that are ever queued
MaxTasks == 2
\* number of worker processes that die inside a task
MaxCrashes == 1
\* number of refund requests the operator submits
MaxOperatorRefunds == 1
\* number of scans (load_txs runs) that are started
MaxScans == 2
\* the batch argument of load_txs / import_batch
ScanBatch == 2
\* cap on the transfers the Movers' ledgers count per Deposit
MaxTransfers == 2
\* largest max_retries a function is wrapped with (3 by default)
MaxRetries == 3
\* number of coins the loader of a scan serves
NumCoins == 2
\* BatchLoader.tx_count, the cap on the raw records loaded for a coin (1000
\* in the program)
tx_count == 8
\* significant digits the Decimal context keeps (28 in the program's context)
DecimalPrec == 3

(***************************************************************************)
(* Values.                                                                 *)
(***************************************************************************)
\* Python's None
NULL == "None"
\* a memo column holding None (memos are sequences of characters)
NoMemo == <<NULL>>

\* steemengine.helpers.empty / privex.helpers.empty for a string column
empty(v) == v = NULL \/ v = ""
\* empty() for a memo column
emptyMemo(m) == m = NoMemo \/ m = <<>>

(***************************************************************************)
(* Configuration rows: Coin, CoinPair, AddressAccountMap.                  *)
(***************************************************************************)
Coins == {"SWAP.WAX", "LTC"}

\* Coin.can_issue
can_issue(c) == c = "SWAP.WAX"

\* the custom setting 'auto_refund' of a coin's handler
auto_refund_setting(c) == c = "SWAP.WAX"

CoinPairs == { [from_coin |-> "SWAP.WAX", to_coin |-> "LTC"],
               [from_coin |-> "LTC", to_coin |-> "SWAP.WAX"] }

\* the AddressAccountMap rows in the order of their primary keys
AddressAccountMaps ==
    << [deposit_coin |-> "LTC", deposit_address |-> "X", deposit_memo |-> NoMemo,
        destination_coin |-> "SWAP.WAX", destination_address |-> "bob",
        destination_memo |-> NoMemo],
       [deposit_coin |-> "LTC", deposit_address |-> "Z", deposit_memo |-> <<"m", "1">>,
        destination_coin |-> "SWAP.WAX", destination_address |-> "carol",
        destination_memo |-> <<"d", "m">>],
       [deposit_coin |-> "LTC", deposit_address |-> "Z", deposit_memo |-> <<"m", "2">>,
        destination_coin |-> "SWAP.WAX", destination_address |-> "dave",
        destination_memo |-> NoMemo] >>

(***************************************************************************)
(* str.strip, str.split, str.upper and ' '.join on sequences of characters *)
(***************************************************************************)
IsSpace(c) == c \in {" ", "\t", "\n"}

RECURSIVE LStrip(_)
LStrip(s) == IF s # <<>> /\ IsSpace(Head(s)) THEN LStrip(Tail(s)) ELSE s

RECURSIVE RStrip(_)
RStrip(s) == IF s # <<>> /\ IsSpace(s[Len(s)])
             THEN RStrip(SubSeq(s, 1, Len(s) - 1)) ELSE s

strip(s) == RStrip(LStrip(s))

\* str.split() without argument: runs of whitespace separate the tokens,
\* no empty token is produced
RECURSIVE SplitFrom(_, _, _)
SplitFrom(s, cur, acc) ==
    IF s = <<>>
    THEN IF cur = <<>> THEN acc ELSE Append(acc, cur)
    ELSE IF IsSpace(Head(s))
         THEN SplitFrom(Tail(s), <<>>, IF cur = <<>> THEN acc ELSE Append(acc, cur))
         ELSE SplitFrom(Tail(s), Append(cur, Head(s)), acc)

split(s) == SplitFrom(s, <<>>, <<>>)

Lower == <<"a", "b", "c", "d", "e", "f", "g", "h", "i", "j", "k", "l", "m", "n", "o", "p", "q", "r", "s", "t", "u", "v", "w", "x", "y", "z">>
Upper == <<"A", "B", "C", "D", "E", "F", "G", "H", "I", "J", "K", "L", "M", "N", "O", "P", "Q", "R", "S", "T", "U", "V", "W", "X", "Y", "Z">>

UpperChar(c) ==
    IF \E i \in 1..Len(Lower) : Lower[i] = c
    THEN Upper[CHOOSE i \in 1..Len(Lower) : Lower[i] = c]
    ELSE c

upper(s) == [i \in 1..Len(s) |-> UpperChar(s[i])]

\* the characters of a token as one string value
RECURSIVE Str(_)
Str(s) == IF s = <<>> THEN "" ELSE Head(s) \o Str(Tail(s))

\* ' '.join(tokens)
RECURSIVE join(_)
join(toks) ==
    IF toks = <<>> THEN <<>>
    ELSE IF Len(toks) = 1 THEN toks[1]
    ELSE toks[1] \o <<" ">> \o join(Tail(toks))

(***************************************************************************)
(* ConvertCore.validate_deposit                                            *)
(***************************************************************************)
Routed(address, to_coin, dest_memo) ==
    [exc |-> NULL, address |-> address, to_coin |-> to_coin, dest_memo |-> dest_memo]

Rejected(exc) ==
    [exc |-> exc, address |-> NULL, to_coin |-> NULL, dest_memo |-> NoMemo]

\* CoinPair.objects.get(from_coin=.., to_coin=Coin.objects.get(symbol=..))
PairExists(from, to) ==
    to \in Coins /\ [from_coin |-> from, to_coin |-> to] \in CoinPairs

\* AddressAccountMap.objects.filter(deposit_coin, deposit_address)[.filter(deposit_memo)]
\* variant, to test the properties: the Deposit's memo is not used in the lookup
MatchingMaps_AnyMemo(d, memo) ==
    { i \in 1..Len(AddressAccountMaps) :
        /\ AddressAccountMaps[i].deposit_coin = d.coin
        /\ AddressAccountMaps[i].deposit_address = d.address }

MatchingMaps(d, memo) ==
    { i \in 1..Len(AddressAccountMaps) :
        /\ AddressAccountMaps[i].deposit_coin = d.coin
        /\ AddressAccountMaps[i].deposit_address = d.address
        /\ (~emptyMemo(memo) => AddressAccountMaps[i].deposit_memo = memo) }

\* QuerySet.first(): the row with the smallest primary key
first(ids) == CHOOSE i \in ids : \A j \in ids : i <= j

\* variant, to test the properties: only the third token of the memo is passed on
validate_deposit_ThirdTokenOnly(d, nconv) ==
    LET memo == IF d.memo # NoMemo THEN strip(d.memo) ELSE NoMemo
        m    == split(memo)
    IN  IF nconv > 0 THEN Rejected("ConvertError")
        ELSE IF ~\E p \in CoinPairs : p.from_coin = d.coin
        THEN Rejected("ConvertInvalid")
        ELSE IF ~emptyMemo(memo) /\ empty(d.address)
        THEN IF Len(m) < 2 THEN Rejected("ConvertInvalid")
             ELSE IF ~PairExists(d.coin, Str(upper(m[1])))
                  THEN Rejected("DoesNotExist")
                  ELSE Routed(Str(m[2]), Str(upper(m[1])),
                              IF Len(m) >= 3 THEN m[3] ELSE <<>>)
        ELSE IF ~empty(d.address)
        THEN IF MatchingMaps(d, memo) = {} THEN Rejected("ConvertInvalid")
             ELSE LET a_map == AddressAccountMaps[first(MatchingMaps(d, memo))]
                  IN  IF ~PairExists(d.coin, a_map.destination_coin)
                      THEN Rejected("DoesNotExist")
                      ELSE Routed(a_map.destination_address, a_map.destination_coin,
                                  a_map.destination_memo)
        ELSE Rejected("ConvertInvalid")

validate_deposit(d, nconv) ==
    LET memo == IF d.memo # NoMemo THEN strip(d.memo) ELSE NoMemo
        m    == split(memo)
    IN  IF nconv > 0 THEN Rejected("ConvertError")
        ELSE IF ~\E p \in CoinPairs : p.from_coin = d.coin
        THEN Rejected("ConvertInvalid")
        ELSE IF ~emptyMemo(memo) /\ empty(d.address)
        THEN IF Len(m) < 2 THEN Rejected("ConvertInvalid")
             ELSE IF ~PairExists(d.coin, Str(upper(m[1])))
                  THEN Rejected("DoesNotExist")
                  ELSE Routed(Str(m[2]), Str(upper(m[1])),
                              IF Len(m) >= 3 THEN join(SubSeq(m, 3, Len(m))) ELSE <<>>)
        ELSE IF ~empty(d.address)
        THEN IF MatchingMaps(d, memo) = {} THEN Rejected("ConvertInvalid")
             ELSE LET a_map == AddressAccountMaps[first(MatchingMaps(d, memo))]
                  IN  IF ~PairExists(d.coin, a_map.destination_coin)
                      THEN Rejected("DoesNotExist")
                      ELSE Routed(a_map.destination_address, a_map.destination_coin,
                                  a_map.destination_memo)
        ELSE Rejected("ConvertInvalid")

(***************************************************************************)
(* The canonical records the loaders yield, and the Deposit row that      *)
(* import_batch saves for one.                                             *)
(***************************************************************************)
RawTxs ==
    << [txid |-> "t1", coin |-> "SWAP.WAX", vout |-> 0, address |-> NULL,
        from_account |-> "alice", memo |-> <<"l","t","c"," ","a","b">>],
       [txid |-> "t1", coin |-> "SWAP.WAX", vout |-> 1, address |-> NULL,
        from_account |-> "alice", memo |-> <<"h","i">>],
       [txid |-> "t2", coin |-> "LTC", vout |-> 0, address |-> "X",
        from_account |-> NULL, memo |-> NoMemo] >>

NewDeposit(tx) ==
    [txid |-> tx.txid, coin |-> tx.coin, vout |-> tx.vout,
     status |-> "new", error_reason |-> NULL,
     address |-> tx.address, from_account |-> tx.from_account, memo |-> tx.memo,
     convert_to |-> NULL, convert_dest_address |-> NULL, convert_dest_memo |-> NoMemo,
     last_convert_attempt |-> FALSE, refund_address |-> NULL]

\* the value of a variable that holds no Deposit object (any more)
NoDeposit ==
    [txid |-> NULL, coin |-> NULL, vout |-> 0,
     status |-> NULL, error_reason |-> NULL,
     address |-> NULL, from_account |-> NULL, memo |-> NoMemo,
     convert_to |-> NULL, convert_dest_address |-> NULL, convert_dest_memo |-> NoMemo,
     last_convert_attempt |-> FALSE, refund_address |-> NULL]

(***************************************************************************)
(* State.                                                                  *)
(***************************************************************************)
VARIABLES
    deposits,   \* the Deposit table: sequence of committed rows, id = index
    convs,      \* number of committed Conversion rows per Deposit id
    locks,      \* the lock rows of lockmgr: [name, dep, by]
    tasks,      \* the queued Celery tasks with their TaskLog, in queue order
    sends,      \* conversion transfers the destination Mover has sent, per Deposit id
    refunds,    \* refund transfers the source Mover has sent, per Deposit id
    crashes,    \* number of worker processes that died so far
    operated,   \* number of operator refund requests so far
    scanners,   \* the running load_txs scans
    call        \* a function of ConvertCore or of the loader that is followed on
                \* its own: its arguments, its position and its results

vars == <<deposits, convs, locks, tasks, sends, refunds, crashes, operated, scanners, call>>

DepositIds == 1..Len(deposits)
TaskIds == 1..Len(tasks)

\* a task that has ended and whose result has been read
Gone ==
    [kind |-> NULL, dep |-> 0, pc |-> "gone",
     d |-> NoDeposit, s |-> NULL, mover |-> NULL, notify |-> NULL, exc |-> NULL,
     last_error |-> NULL, tl_deposit |-> NoDeposit, task_read |-> TRUE]

\* the lock name each task takes: convert_deposit:<id>, detect_deposit:<id>,
\* auto_refund:<id>
LockName(kind) ==
    CASE kind = "convert_deposit" -> "convert_deposit"
      [] kind = "check_deposit"   -> "detect_deposit"
      [] kind = "auto_refund"     -> "auto_refund"

IsLocked(name, dep) == \E l \in locks : l.name = name /\ l.dep = dep

Bump(n) == IF n < MaxTransfers THEN n + 1 ELSE n

(***************************************************************************)
(* background_task: queue a task and save its TaskLog, which holds the     *)
(* Deposit object fetched at that moment.                                  *)
(***************************************************************************)
NewTask(kind, dep, last_error) ==
    [kind |-> kind, dep |-> dep, pc |-> "queued",
     d |-> NoDeposit, s |-> NULL, mover |-> NULL, notify |-> NULL, exc |-> NULL,
     last_error |-> last_error,
     tl_deposit |-> deposits[dep], task_read |-> FALSE]

background_task(kind, dep, last_error) ==
    tasks' = Append(tasks, NewTask(kind, dep, last_error))

\* a run of the converter queues check_deposit for the Deposits it finds in
\* status new and convert_deposit for those it finds in status mapped
Dispatch(kind, dep) ==
    /\ Len(tasks) < MaxTasks
    /\ \/ kind = "check_deposit" /\ deposits[dep].status = "new"
       \/ kind = "convert_deposit" /\ deposits[dep].status = "mapped"
    /\ background_task(kind, dep, NULL)
    /\ UNCHANGED <<deposits, convs, locks, sends, refunds, crashes, operated, scanners, call>>

(***************************************************************************)
(* The first statement of each task: d = Deposit.objects.get(id=...)       *)
(***************************************************************************)
ReadDeposit(t) ==
    /\ tasks[t].pc = "queued"
    /\ tasks' = [tasks EXCEPT ![t].d = deposits[tasks[t].dep], ![t].pc = "read"]
    /\ UNCHANGED <<deposits, convs, locks, sends, refunds, crashes, operated, scanners, call>>

\* the task ends, returning or raising exc; its local Deposit object is dropped,
\* and so is the whole task when its handler has given up waiting already
Finish(t, exc) ==
    IF tasks[t].task_read
    THEN [tasks EXCEPT ![t] = Gone]
    ELSE [tasks EXCEPT ![t].pc = "done", ![t].exc = exc, ![t].d = NoDeposit]

\* the same, for a task whose Mover call ended as mover
FinishMover(t, exc, mover) ==
    IF tasks[t].task_read
    THEN [tasks EXCEPT ![t] = Gone]
    ELSE [tasks EXCEPT ![t].pc = "done", ![t].exc = exc, ![t].d = NoDeposit, ![t].mover = mover]

Release(t) == locks \ { l \in locks : l.by = t }

(***************************************************************************)
(* with LockMgr(name): take the lock or raise Locked.  auto_refund first   *)
(* looks at the coin's auto_refund setting.                                *)
(***************************************************************************)
AcquireLock(t) ==
    LET k == tasks[t] IN
    /\ k.pc = "read"
    /\ IF k.kind = "auto_refund" /\ ~auto_refund_setting(k.d.coin)
       THEN /\ tasks' = Finish(t, IF empty(k.last_error) THEN NULL ELSE "CTCException")
            /\ UNCHANGED locks
       ELSE IF IsLocked(LockName(k.kind), k.dep)
       THEN /\ tasks' = Finish(t, "Locked")
            /\ UNCHANGED locks
       ELSE /\ locks' = locks \cup {[name |-> LockName(k.kind), dep |-> k.dep, by |-> t]}
            /\ tasks' = [tasks EXCEPT ![t].pc = "locked"]
    /\ UNCHANGED <<deposits, convs, sends, refunds, crashes, operated, scanners, call>>

(***************************************************************************)
(* tasks.check_deposit, under its lock                                     *)
(***************************************************************************)
\* variant, to test the properties: the status is saved without the destination
Mapped_StatusOnly(d, v) ==
    [d EXCEPT !.status = "mapped"]

\* d.status = 'mapped' with the convert_* fields of the resolved destination
Mapped(d, v) ==
    [d EXCEPT !.status = "mapped", !.convert_to = v.to_coin,
              !.convert_dest_address = v.address, !.convert_dest_memo = v.dest_memo]

check_deposit(t) ==
    LET k == tasks[t]
        v == validate_deposit(k.d, convs[k.dep])
    IN
    /\ k.pc = "locked" /\ k.kind = "check_deposit"
    /\ locks' = Release(t)
    /\ IF k.d.status # "new"
       THEN /\ tasks' = Finish(t, "ConvertError")
            /\ UNCHANGED deposits
       ELSE IF v.exc # NULL
       THEN /\ tasks' = Finish(t, IF v.exc = "DoesNotExist" THEN "ConvertInvalid" ELSE v.exc)
            /\ UNCHANGED deposits
       ELSE /\ deposits' = [deposits EXCEPT ![k.dep] = Mapped(k.d, v)]
            /\ tasks' = Finish(t, NULL)
    /\ UNCHANGED <<convs, sends, refunds, crashes, operated, scanners, call>>

(***************************************************************************)
(* tasks.convert_deposit with ConvertCore.convert, under its lock: up to   *)
(* the return of the Mover's send / send_or_issue.                         *)
(***************************************************************************)
\* what mgr.send / mgr.send_or_issue can do
SendOutcomes == {"ok", "NotEnoughBalance", "AccountNotFound", "Exception"}

\* how notify_low_bal, with the balance and deposit address queried for it,
\* ends: the e-mail is sent, or something in it raises
NotifyOutcomes == {"sent", "Exception"}

\* variant, to test the properties: AccountNotFound is left to propagate as it is
ConvertFailure_NoReclassify(outcome) ==
    CASE outcome = "NotEnoughBalance" -> "AttributeError"
      [] OTHER                        -> outcome

\* how convert, and convert_deposit around it, end for a Mover outcome other
\* than a successful send: convert turns AccountNotFound into ConvertInvalid
\* and returns None on NotEnoughBalance, and convert_deposit then evaluates
\* conv.id on that None
ConvertFailure(outcome) ==
    CASE outcome = "AccountNotFound"  -> "ConvertInvalid"
      [] outcome = "NotEnoughBalance" -> "AttributeError"
      [] OTHER                        -> outcome

\* variant, to test the properties: convert goes on to save the Deposit and the Conversion although
\* the Mover's send raised NotEnoughBalance
convert_SaveAfterFailedSend(t, healthy, outcome) ==
    IF ~healthy
    THEN /\ tasks' = FinishMover(t, "AttributeError", "unhealthy")
         /\ locks' = Release(t)
         /\ UNCHANGED sends
    ELSE IF outcome = "ok"
    THEN /\ sends' = [sends EXCEPT ![tasks[t].dep] = Bump(@)]
         /\ tasks' = [tasks EXCEPT ![t].pc = "sent", ![t].s = "tx", ![t].mover = "ok"]
         /\ UNCHANGED locks
    ELSE IF outcome = "NotEnoughBalance"
    THEN /\ tasks' = [tasks EXCEPT ![t].pc = "sent", ![t].mover = outcome]
         /\ UNCHANGED <<locks, sends>>
    ELSE /\ tasks' = FinishMover(t, ConvertFailure(outcome), outcome)
         /\ locks' = Release(t)
         /\ UNCHANGED sends

\* ConvertCore.convert from the health check to the return of the Mover's
\* send / send_or_issue, for one behaviour of the Mover
convert(t, healthy, outcome) ==
    IF ~healthy
    THEN \* last_convert_attempt is saved and convert returns None;
         \* conv.id raises and the atomic block rolls the save back
         /\ tasks' = FinishMover(t, "AttributeError", "unhealthy")
         /\ locks' = Release(t)
         /\ UNCHANGED sends
    ELSE IF outcome = "ok"
    THEN /\ sends' = [sends EXCEPT ![tasks[t].dep] = Bump(@)]
         /\ tasks' = [tasks EXCEPT ![t].pc = "sent", ![t].s = "tx", ![t].mover = "ok"]
         /\ UNCHANGED locks
    ELSE IF outcome = "NotEnoughBalance"
    THEN \* the except branch saves last_convert_attempt and calls
         \* notify_low_bal inside a try of its own, then returns None
         /\ \E notify \in NotifyOutcomes :
               tasks' = IF tasks[t].task_read THEN FinishMover(t, ConvertFailure(outcome), outcome)
                        ELSE [FinishMover(t, ConvertFailure(outcome), outcome) EXCEPT ![t].notify = notify]
         /\ locks' = Release(t)
         /\ UNCHANGED sends
    ELSE /\ tasks' = FinishMover(t, ConvertFailure(outcome), outcome)
         /\ locks' = Release(t)
         /\ UNCHANGED sends

convert_send(t) ==
    LET k == tasks[t] IN
    /\ k.pc = "locked" /\ k.kind = "convert_deposit"
    /\ IF k.d.status # "mapped"
       THEN /\ tasks' = Finish(t, "ConvertError")
            /\ locks' = Release(t)
            /\ UNCHANGED sends
       ELSE IF empty(k.d.convert_to) \/ empty(k.d.convert_dest_address)
       THEN /\ tasks' = Finish(t, "ConvertError")
            /\ locks' = Release(t)
            /\ UNCHANGED sends
       ELSE IF ~PairExists(k.d.coin, k.d.convert_to)
       THEN /\ tasks' = Finish(t, "ConvertInvalid")
            /\ locks' = Release(t)
            /\ UNCHANGED sends
       ELSE \E healthy \in BOOLEAN : \E outcome \in SendOutcomes :
                convert(t, healthy, outcome)
    /\ UNCHANGED <<deposits, convs, refunds, crashes, operated, scanners, call>>

\* variant, to test the properties: the Conversion table without its one-to-one constraint
ConversionRefused_NoConstraint(dep) == FALSE

\* Conversion has a OneToOneField to Deposit: a second row for the same
\* Deposit is refused with an IntegrityError
ConversionRefused(dep) == convs[dep] > 0

Converted(d) ==
    [d EXCEPT !.status = "conv"]

\* after the send: deposit.save() with status conv and Conversion.save(),
\* committed together by the atomic block of convert_deposit
convert_commit(t) ==
    LET k == tasks[t] IN
    /\ k.pc = "sent" /\ k.kind = "convert_deposit"
    /\ locks' = Release(t)
    /\ IF ConversionRefused(k.dep)
       THEN /\ tasks' = Finish(t, "IntegrityError")
            /\ UNCHANGED <<deposits, convs>>
       ELSE /\ deposits' = [deposits EXCEPT ![k.dep] = Converted(k.d)]
            /\ convs' = [convs EXCEPT ![k.dep] = @ + 1]
            /\ tasks' = Finish(t, NULL)
    /\ UNCHANGED <<sends, refunds, crashes, operated, scanners, call>>

(***************************************************************************)
(* tasks.auto_refund with ConvertCore.refund_sender, under its lock        *)
(***************************************************************************)
\* variant, to test the properties: the sender account comes before the address
RefundDest_AccountFirst(d, return_to) ==
    LET dest == IF empty(return_to) THEN d.from_account ELSE return_to
    IN  IF empty(dest) THEN d.address ELSE dest

\* return destination priority: return_to argument, sender address, sender account
RefundDest(d, return_to) ==
    LET dest == IF empty(return_to) THEN d.address ELSE return_to
    IN  IF empty(dest) THEN d.from_account ELSE dest

refund_send(t) ==
    LET k == tasks[t] IN
    /\ k.pc = "locked" /\ k.kind = "auto_refund"
    /\ IF k.d.status \in {"refund", "conv"}
       THEN /\ tasks' = Finish(t, "NotRefunding")
            /\ locks' = Release(t)
            /\ UNCHANGED refunds
       ELSE IF empty(RefundDest(k.d, NULL))
       THEN /\ tasks' = Finish(t, "AttributeError")
            /\ locks' = Release(t)
            /\ UNCHANGED refunds
       ELSE \E outcome \in SendOutcomes :
            IF outcome = "ok"
            THEN /\ refunds' = [refunds EXCEPT ![k.dep] = Bump(@)]
                 /\ tasks' = [tasks EXCEPT ![t].pc = "sent", ![t].s = "tx"]
                 /\ UNCHANGED locks
            ELSE /\ tasks' = Finish(t, outcome)
                 /\ locks' = Release(t)
                 /\ UNCHANGED refunds
    /\ UNCHANGED <<deposits, convs, sends, crashes, operated, scanners, call>>

Refunded(d, dest) ==
    [d EXCEPT !.status = "refund", !.refund_address = dest]

\* after the refund was sent: d.save() with status refund and the refund_* fields
refund_commit(t) ==
    LET k == tasks[t] IN
    /\ k.pc = "sent" /\ k.kind = "auto_refund"
    /\ locks' = Release(t)
    /\ deposits' = [deposits EXCEPT ![k.dep] = Refunded(k.d, RefundDest(k.d, NULL))]
    /\ tasks' = Finish(t, NULL)
    /\ UNCHANGED <<convs, sends, refunds, crashes, operated, scanners, call>>

(***************************************************************************)
(* A worker process dies inside a task: nothing of its open transaction is *)
(* committed, and its lock row stays until it expires.                     *)
(***************************************************************************)
Crash(t) ==
    /\ tasks[t].pc \in {"locked", "sent"}
    /\ crashes < MaxCrashes /\ crashes' = crashes + 1
    /\ tasks' = IF tasks[t].task_read
                THEN [tasks EXCEPT ![t] = Gone]
                ELSE [tasks EXCEPT ![t].pc = "crashed", ![t].d = NoDeposit]
    /\ locks' = { IF l.by = t THEN [l EXCEPT !.by = 0] ELSE l : l \in locks }
    /\ UNCHANGED <<deposits, convs, sends, refunds, operated, scanners, call>>

\* LockMgr's locks carry an expiry; the lock of a dead worker is cleaned then
LockExpire(l) ==
    /\ l \in locks /\ l.by = 0
    /\ locks' = locks \ {l}
    /\ UNCHANGED <<deposits, convs, tasks, sends, refunds, crashes, operated, scanners, call>>

(***************************************************************************)
(* task_helpers: the handlers that wait for a task's result and map the    *)
(* exception it raised to the Deposit held by the TaskLog.                 *)
(***************************************************************************)
\* the text a handler stores as error_reason: the exception's class and message
Reason == "reason"

\* TaskLog.error_log of a TaskLog that background_task has just saved
error_log == ""

\* tl.error_log + "\n" + reason: str + None, or None + str, raises TypeError
CanConcat(log, reason) == log # NULL /\ reason # NULL

\* variant, to test the properties: the save reaches every row of the table
SaveStatus_EveryRow(t, status, reason) ==
    deposits' = [i \in DOMAIN deposits |->
                    [deposits[i] EXCEPT !.status = status, !.error_reason = reason]]

\* d.status = ..; d.error_reason = ..; d.save()  on the TaskLog's Deposit object
SaveStatus(t, status, reason) ==
    deposits' = [deposits EXCEPT ![tasks[t].dep] =
                    [tasks[t].tl_deposit EXCEPT !.status = status, !.error_reason = reason]]

\* the same with tl.error_log = tl.error_log + "\n" + d.error_reason before
\* d.save(): when the concatenation raises, nothing is saved
LogAndSaveStatus(t, status, reason) ==
    IF CanConcat(error_log, reason)
    THEN SaveStatus(t, status, reason)
    ELSE UNCHANGED deposits

\* finally: tl.task_read = True; the handler is through with the task, whose
\* TaskLog is dropped once the task itself has ended
MarkRead(t) ==
    IF tasks[t].pc \in {"done", "crashed"}
    THEN [tasks EXCEPT ![t] = Gone]
    ELSE [tasks EXCEPT ![t].task_read = TRUE, ![t].tl_deposit = NoDeposit]

\* variant, to test the properties: lock contention is handled as any other exception
handle_convert_deposit_errors_LockedIsError(t, exc) ==
    /\ tasks[t].kind = "convert_deposit"
    /\ tasks' = MarkRead(t)
    /\ CASE exc = NULL             -> UNCHANGED deposits
         [] exc = "ConvertError"   -> SaveStatus(t, "err", Reason)
         [] exc = "ConvertInvalid" -> LogAndSaveStatus(t, "inv", Reason)
         [] OTHER                  -> LogAndSaveStatus(t, "err", Reason)

handle_convert_deposit_errors(t, exc) ==
    /\ tasks[t].kind = "convert_deposit"
    /\ tasks' = MarkRead(t)
    /\ CASE exc = NULL             -> UNCHANGED deposits
         [] exc = "Locked"         -> UNCHANGED deposits
         [] exc = "ConvertError"   -> SaveStatus(t, "err", Reason)
         [] exc = "ConvertInvalid" -> LogAndSaveStatus(t, "inv", Reason)
         [] OTHER                  -> LogAndSaveStatus(t, "err", Reason)

\* variant, to test the properties: an invalid Deposit is recorded as an error
handle_deposit_errors_InvalidIsError(t, exc) ==
    /\ tasks[t].kind = "check_deposit"
    /\ CASE exc = NULL             -> tasks' = MarkRead(t) /\ UNCHANGED deposits
         [] exc = "Locked"         -> tasks' = MarkRead(t) /\ UNCHANGED deposits
         [] exc = "ConvertError"   ->
              \* tl.error_log + "\n" + d.error_reason raises TypeError when the
              \* Deposit has no error_reason, before auto_refund is queued
              IF ~CanConcat(error_log, tasks[t].tl_deposit.error_reason)
              THEN tasks' = MarkRead(t) /\ UNCHANGED deposits
              ELSE /\ Len(tasks) < MaxTasks
                   /\ tasks' = Append(MarkRead(t),
                                      NewTask("auto_refund", tasks[t].dep, "<ConvertError>"))
                   /\ UNCHANGED deposits
         [] exc = "ConvertInvalid" -> tasks' = MarkRead(t) /\ LogAndSaveStatus(t, "err", Reason)
         [] OTHER                  -> tasks' = MarkRead(t)
                                      /\ LogAndSaveStatus(t, "err", Reason)

handle_deposit_errors(t, exc) ==
    /\ tasks[t].kind = "check_deposit"
    /\ CASE exc = NULL             -> tasks' = MarkRead(t) /\ UNCHANGED deposits
         [] exc = "Locked"         -> tasks' = MarkRead(t) /\ UNCHANGED deposits
         [] exc = "ConvertError"   ->
              \* tl.error_log + "\n" + d.error_reason raises TypeError when the
              \* Deposit has no error_reason, before auto_refund is queued
              IF ~CanConcat(error_log, tasks[t].tl_deposit.error_reason)
              THEN tasks' = MarkRead(t) /\ UNCHANGED deposits
              ELSE /\ Len(tasks) < MaxTasks
                   /\ tasks' = Append(MarkRead(t),
                                      NewTask("auto_refund", tasks[t].dep, "<ConvertError>"))
                   /\ UNCHANGED deposits
         [] exc = "ConvertInvalid" -> tasks' = MarkRead(t) /\ LogAndSaveStatus(t, "inv", Reason)
         [] OTHER                  -> tasks' = MarkRead(t)
                                      /\ LogAndSaveStatus(t, "err", Reason)

handle_auto_refund_errors(t, exc) ==
    /\ tasks[t].kind = "auto_refund"
    /\ tasks' = MarkRead(t)
    /\ CASE exc = NULL     -> UNCHANGED deposits
         [] exc = "Locked" -> UNCHANGED deposits
         [] OTHER          -> LogAndSaveStatus(t, "err", Reason)

\* task_error_handlers
HandlerOf(t, exc) ==
    \/ handle_convert_deposit_errors(t, exc)
    \/ handle_deposit_errors(t, exc)
    \/ handle_auto_refund_errors(t, exc)

\* tl.task_get(timeout=..) returns the task's result or re-raises its exception
HandleResult(t) ==
    /\ tasks[t].pc = "done" /\ ~tasks[t].task_read
    /\ HandlerOf(t, tasks[t].exc)
    /\ UNCHANGED <<convs, locks, sends, refunds, crashes, operated, scanners, call>>

\* tl.task_get(timeout=..) gives up before the task has a result
HandleTimeout(t) ==
    /\ tasks[t].pc \notin {"done", "gone"} /\ ~tasks[t].task_read
    /\ HandlerOf(t, "TimeoutError")
    /\ UNCHANGED <<convs, locks, sends, refunds, crashes, operated, scanners, call>>

(***************************************************************************)
(* retry_errors: SWAP.WAX Deposits in status err are set back to new       *)
(***************************************************************************)
retry_errors(dep) ==
    /\ deposits[dep].status = "err" /\ deposits[dep].coin = "SWAP.WAX"
    /\ deposits' = [deposits EXCEPT ![dep].status = "new"]
    /\ UNCHANGED <<convs, locks, tasks, sends, refunds, crashes, operated, scanners, call>>

(***************************************************************************)
(* admin.refund_deposits: the operator's refund of a selected Deposit      *)
(***************************************************************************)
refund_deposits(dep) ==
    LET d == deposits[dep] IN
    /\ ~empty(d.from_account)
    /\ operated < MaxOperatorRefunds /\ operated' = operated + 1
    /\ \E outcome \in SendOutcomes :
         IF outcome = "ok"
         THEN /\ refunds[dep] < MaxTransfers
              /\ refunds' = [refunds EXCEPT ![dep] = @ + 1]
              /\ convs' = [convs EXCEPT ![dep] = 0]
              /\ deposits' = [deposits EXCEPT ![dep] = Refunded(d, d.from_account)]
         ELSE \* the atomic block rolls the removal of the Conversions back
              /\ deposits' = [deposits EXCEPT ![dep] =
                                [d EXCEPT !.status = "err", !.error_reason = Reason]]
              /\ UNCHANGED <<convs, refunds>>
    /\ UNCHANGED <<locks, tasks, sends, crashes, scanners, call>>

(***************************************************************************)
(* The pipeline on the Deposits a scan has stored.                         *)
(***************************************************************************)
Key(d) == <<d.txid, d.coin, d.vout>>

\* the rows a scan stores, the rows check_deposit has mapped already, and
\* the rows retry_errors has set back to new after a failure
StoredRows ==
    LET new == {NewDeposit(RawTxs[i]) : i \in 1..Len(RawTxs)}
    IN  new \cup { Mapped(d, validate_deposit(d, 0)) :
                     d \in {n \in new : validate_deposit(n, 0).exc = NULL} }
            \cup { [d EXCEPT !.error_reason = Reason] : d \in {n \in new : n.coin = "SWAP.WAX"} }

\* The pipeline is followed on one stored Deposit: every task, lock name,
\* handler and operator request carries one Deposit id and reads and writes
\* that Deposit's row and Conversion only.
DepositTables == { <<row>> : row \in StoredRows }

Init ==
    /\ deposits \in DepositTables
    /\ convs = [i \in DOMAIN deposits |-> 0]
    /\ locks = {}
    /\ tasks = <<>>
    /\ sends = [i \in DOMAIN deposits |-> 0]
    /\ refunds = [i \in DOMAIN deposits |-> 0]
    /\ crashes = 0
    /\ operated = 0
    /\ scanners = <<>>
    /\ call = NULL

Next ==
    \/ \E dep \in DepositIds : \E kind \in {"check_deposit", "convert_deposit"} : Dispatch(kind, dep)
    \/ \E t \in TaskIds : ReadDeposit(t)
    \/ \E t \in TaskIds : AcquireLock(t)
    \/ \E t \in TaskIds : check_deposit(t)
    \/ \E t \in TaskIds : convert_send(t)
    \/ \E t \in TaskIds : convert_commit(t)
    \/ \E t \in TaskIds : refund_send(t)
    \/ \E t \in TaskIds : refund_commit(t)
    \/ \E t \in TaskIds : Crash(t)
    \/ \E l \in locks : LockExpire(l)
    \/ \E t \in TaskIds : HandleResult(t)
    \/ \E t \in TaskIds : HandleTimeout(t)
    \/ \E dep \in DepositIds : retry_errors(dep)
    \/ \E dep \in DepositIds : refund_deposits(dep)

Spec == Init /\ [][Next]_vars

TypeOK ==
    /\ \A i \in DepositIds : deposits[i].status \in {"new", "mapped", "conv", "inv", "err", "refund"}
    /\ \A t \in TaskIds : tasks[t].pc \in {"gone", "queued", "read", "locked", "sent", "done", "crashed"}

(***************************************************************************)
(* The scanner: tasks.load_txs and the load_txs command, with import_batch *)
(***************************************************************************)
ScanIds == 1..Len(scanners)

\* the canonical records list_txs yields for a coin
Stream(symbol) == SelectSeq(RawTxs, LAMBDA tx : tx.coin = symbol)

\* a scan starts: the task takes the lock load_txs:<symbol> or is skipped
\* when it is held; the management command takes no lock
StartScan(symbol, viaTask) ==
    /\ Len(scanners) < MaxScans
    /\ IF viaTask /\ IsLocked("load_txs", symbol)
       THEN /\ scanners' = Append(scanners,
                [symbol |-> symbol, lock |-> FALSE, pc |-> "done", pos |-> 1, i |-> 0,
                 pending |-> <<>>])
            /\ UNCHANGED locks
       ELSE /\ scanners' = Append(scanners,
                [symbol |-> symbol, lock |-> viaTask, pc |-> "iter", pos |-> 1, i |-> 0,
                 pending |-> <<>>])
            /\ locks' = IF viaTask
                        THEN locks \cup {[name |-> "load_txs", dep |-> symbol,
                                          by |-> Len(scanners) + 1]}
                        ELSE locks
    /\ UNCHANGED <<deposits, convs, tasks, sends, refunds, crashes, operated, call>>

\* the rows scan n sees: the committed table and the rows of its own open
\* transaction
Visible(n) == deposits \o scanners[n].pending

\* Deposit.objects.filter(txid=tx['txid']).count()
dupes(n, tx) == Cardinality({ j \in 1..Len(Visible(n)) : Visible(n)[j].txid = tx.txid })

\* variant, to test the properties: the Deposit table without its unique_together constraint
UniqueViolation_NoConstraint(n, row) == FALSE

\* unique_together (txid, coin, vout): the INSERT is refused
UniqueViolation(n, row) == \E j \in 1..Len(Visible(n)) : Key(Visible(n)[j]) = Key(row)

\* another open transaction has inserted the same key: the INSERT waits for it
InsertWaits(n, row) ==
    \E m \in ScanIds : m # n /\ \E j \in 1..Len(scanners[m].pending) :
        Key(scanners[m].pending[j]) = Key(row)

\* the finally clause of import_batch's loop, and what follows when the batch
\* is full: import_batch returns False, the atomic block of load_txs commits
\* the rows and the next batch starts
AfterTx(n, sc) ==
    IF sc.i + 1 >= ScanBatch
    THEN /\ deposits' = deposits \o sc.pending
         /\ scanners' = [scanners EXCEPT ![n] =
                [sc EXCEPT !.pos = @ + 1, !.i = 0, !.pending = <<>>, !.pc = "iter"]]
    ELSE /\ deposits' = deposits
         /\ scanners' = [scanners EXCEPT ![n] =
                [sc EXCEPT !.pos = @ + 1, !.i = @ + 1, !.pc = "iter"]]

\* import_batch takes the next record and counts the stored rows with its txid
ImportCheck(n) ==
    LET sc == scanners[n] IN
    /\ sc.pc = "iter" /\ sc.pos <= Len(Stream(sc.symbol))
    /\ IF dupes(n, Stream(sc.symbol)[sc.pos]) > 0
       THEN AfterTx(n, sc)
       ELSE /\ scanners' = [scanners EXCEPT ![n].pc = "save"]
            /\ UNCHANGED deposits
    /\ UNCHANGED <<convs, locks, tasks, sends, refunds, crashes, operated, call>>

\* Deposit(tx).save() in its own atomic block; a refused INSERT is logged
\* and the record skipped
ImportSave(n) ==
    LET sc  == scanners[n]
        row == NewDeposit(Stream(sc.symbol)[sc.pos])
    IN
    /\ sc.pc = "save"
    /\ ~InsertWaits(n, row)
    /\ IF UniqueViolation(n, row)
       THEN AfterTx(n, sc)
       ELSE AfterTx(n, [sc EXCEPT !.pending = Append(@, row)])
    /\ UNCHANGED <<convs, locks, tasks, sends, refunds, crashes, operated, call>>

\* the records are exhausted: import_batch returns i < batch, the rows are
\* committed, and load_txs ends the scan when the result is True
ImportEnd(n) ==
    LET sc == scanners[n] IN
    /\ sc.pc = "iter" /\ sc.pos > Len(Stream(sc.symbol))
    /\ deposits' = deposits \o sc.pending
    /\ IF sc.i < ScanBatch
       THEN /\ scanners' = [scanners EXCEPT ![n] = [sc EXCEPT !.pending = <<>>, !.pc = "done"]]
            /\ locks' = { l \in locks : ~(l.name = "load_txs" /\ l.by = n) }
       ELSE /\ scanners' = [scanners EXCEPT ![n] = [sc EXCEPT !.pending = <<>>, !.i = 0]]
            /\ UNCHANGED locks
    /\ UNCHANGED <<convs, tasks, sends, refunds, crashes, operated, call>>

InitScan ==
    /\ deposits = <<>>
    /\ convs = <<>>
    /\ locks = {}
    /\ tasks = <<>>
    /\ sends = <<>>
    /\ refunds = <<>>
    /\ crashes = 0
    /\ operated = 0
    /\ scanners = <<>>
    /\ call = NULL

NextScan ==
    \/ \E symbol \in Coins : \E viaTask \in BOOLEAN : StartScan(symbol, viaTask)
    \/ \E n \in ScanIds : ImportCheck(n)
    \/ \E n \in ScanIds : ImportSave(n)
    \/ \E n \in ScanIds : ImportEnd(n)

SpecScan == InitScan /\ [][NextScan]_vars

(***************************************************************************)
(* check_deposit on its own: the Deposits a scan can store, each followed  *)
(* through check_deposit and its result handler.                           *)
(***************************************************************************)
\* the memos of the transactions that are received: none, blank, one token,
\* and two or more tokens with single, repeated and surrounding whitespace
CheckMemos ==
    { NoMemo,
      <<>>,
      <<" ", " ">>,
      <<"h", "i">>,
      <<"m", "1">>,
      <<"m", "2">>,
      <<"m", "3">>,
      <<"l", "t", "c", " ", "a", "b">>,
      <<" ", "l", "t", "c", "\t", "a", "b", " ">>,
      <<"L", "T", "C", " ", "a", "b", "c", "1", "2", "3", " ", "h", "e", "l", "l", "o", " ", "w", "o", "r", "l", "d">>,
      <<"l", "t", "c", " ", "a", "b", " ", "c", "d", " ", " ", "e", "f">>,
      <<"x", "y", "z", " ", "a", "b">>,
      <<"s", "w", "a", "p", ".", "w", "a", "x", " ", "b", "o", "b", " ", "m", "e", "m", "o">> }

\* the addresses the transactions are received at: none (account based
\* coins), addresses with and without an AddressAccountMap row
CheckAddresses == {NULL, "", "X", "Y", "Z"}

CheckRows ==
    { NewDeposit([txid |-> "t1", coin |-> c, vout |-> 0, address |-> a,
                  from_account |-> IF empty(a) THEN "alice" ELSE NULL, memo |-> m]) :
        c \in Coins, a \in CheckAddresses, m \in CheckMemos }

InitCheck ==
    /\ deposits \in { <<row>> : row \in CheckRows }
    /\ convs = [i \in DOMAIN deposits |-> 0]
    /\ locks = {}
    /\ tasks = <<>>
    /\ sends = [i \in DOMAIN deposits |-> 0]
    /\ refunds = [i \in DOMAIN deposits |-> 0]
    /\ crashes = 0
    /\ operated = 0
    /\ scanners = <<>>
    /\ call = NULL

NextCheck ==
    \/ \E dep \in DepositIds : Dispatch("check_deposit", dep)
    \/ \E t \in TaskIds : ReadDeposit(t)
    \/ \E t \in TaskIds : AcquireLock(t)
    \/ \E t \in TaskIds : check_deposit(t)
    \/ \E t \in TaskIds : HandleResult(t)

SpecCheck == InitCheck /\ [][NextCheck]_vars

(***************************************************************************)
(* decimal.Decimal under the default context: a value is coefficient *     *)
(* 10^exponent, and every result is rounded to the context's precision,    *)
(* ROUND_HALF_EVEN.  All values here are non-negative.                     *)
(***************************************************************************)
Dec(c, e) == [c |-> c, e |-> e]

RECURSIVE Pow10(_)
Pow10(n) == IF n = 0 THEN 1 ELSE 10 * Pow10(n - 1)

RECURSIVE Digits(_)
Digits(c) == IF c < 10 THEN 1 ELSE 1 + Digits(c \div 10)

Min(x, y) == IF x <= y THEN x ELSE y

\* the context's rounding of the exact result c * 10^e
Round(c, e) ==
    LET k == Digits(c) - DecimalPrec IN
    IF k <= 0 THEN Dec(c, e)
    ELSE LET q    == c \div Pow10(k)
             r    == c % Pow10(k)
             half == 5 * Pow10(k - 1)
             q1   == IF r > half \/ (r = half /\ q % 2 = 1) THEN q + 1 ELSE q
         IN  IF q1 = Pow10(DecimalPrec)
             THEN Dec(Pow10(DecimalPrec - 1), e + k + 1)
             ELSE Dec(q1, e + k)

\* Decimal.__mul__, __add__, __sub__ (for a >= b), __eq__, __le__
Mul(a, b) == Round(a.c * b.c, a.e + b.e)

Add(a, b) ==
    LET e == Min(a.e, b.e) IN Round(a.c * Pow10(a.e - e) + b.c * Pow10(b.e - e), e)

Sub(a, b) ==
    LET e == Min(a.e, b.e) IN Round(a.c * Pow10(a.e - e) - b.c * Pow10(b.e - e), e)

DecEq(a, b) ==
    LET e == Min(a.e, b.e) IN a.c * Pow10(a.e - e) = b.c * Pow10(b.e - e)

DecLeq(a, b) ==
    LET e == Min(a.e, b.e) IN a.c * Pow10(a.e - e) <= b.c * Pow10(b.e - e)

(***************************************************************************)
(* ConvertCore.amount_converted and the amounts of ConvertCore.convert     *)
(***************************************************************************)
amount_converted(from_amount, ex_rate, fee_pct) ==
    LET conv_amount == Mul(from_amount, ex_rate)
        ex_fee_pct  == Mul(fee_pct, Dec(1, -2))
        ex_fee      == Mul(conv_amount, ex_fee_pct)
        send_amount == Sub(conv_amount, ex_fee)
    IN  [send_amount |-> send_amount, ex_fee |-> ex_fee]

\* Deposit.amount of the Deposits that are converted
Amounts == { Dec(10, 0), Dec(999, 0), Dec(101, 0), Dec(37, -1), Dec(125, -1), Dec(5, -2),
             Dec(250, 0) }

\* CoinPair.exchange_rate
Rates == { Dec(1, 0), Dec(15, -1), Dec(1, -3), Dec(999, 0), Dec(25, -1), Dec(33, -2) }

\* settings.EX_FEE, a percentage
Fees == { Dec(0, 0), Dec(1, 0), Dec(25, -1), Dec(15, -2), Dec(50, 0) }

\* the network fee a Mover takes off the amount it is asked to send
NetworkFee == Dec(1, -2)

\* what a successful send reports: the amount as asked and no fee, or the
\* amount after the network fee and that fee
Reports == {"asked", "network_fee"}

MoverResult(amount, report) ==
    IF report = "network_fee"
    THEN [amount |-> Sub(amount, NetworkFee), fee |-> NetworkFee]
    ELSE [amount |-> amount, fee |-> Dec(0, 0)]

\* variant, to test the properties: the Conversion is stored without its exchange fee
convert_amounts_NoExFee(healthy, outcome, report) ==
    LET r == amount_converted(call.amount, call.exchange_rate, call.EX_FEE)
        s == MoverResult(r.send_amount, report)
    IN
    /\ call.pc = "start"
    /\ report = "network_fee" => DecLeq(NetworkFee, r.send_amount)
    /\ call' = IF ~healthy
               THEN [call EXCEPT !.pc = "done", !.computed = <<r>>]
               ELSE IF outcome # "ok"
               THEN [call EXCEPT !.pc = "done", !.computed = <<r>>,
                                 !.asked = <<r.send_amount>>]
               ELSE [call EXCEPT !.pc = "done", !.computed = <<r>>,
                                 !.asked = <<r.send_amount>>, !.status = "conv",
                                 !.conversion = <<[to_amount |-> s.amount, tx_fee |-> s.fee,
                                                   ex_fee |-> Dec(0, 0)]>>]
    /\ UNCHANGED <<deposits, convs, locks, tasks, sends, refunds, crashes, operated, scanners>>

\* ConvertCore.convert on a mapped Deposit, as far as amounts go: the amount
\* to send and the fee are computed, the Mover is asked to send, and the
\* Conversion is stored with what the Mover reports
convert_amounts(healthy, outcome, report) ==
    LET r == amount_converted(call.amount, call.exchange_rate, call.EX_FEE)
        s == MoverResult(r.send_amount, report)
    IN
    /\ call.pc = "start"
    /\ report = "network_fee" => DecLeq(NetworkFee, r.send_amount)
    /\ call' = IF ~healthy
               THEN [call EXCEPT !.pc = "done", !.computed = <<r>>]
               ELSE IF outcome # "ok"
               THEN [call EXCEPT !.pc = "done", !.computed = <<r>>,
                                 !.asked = <<r.send_amount>>]
               ELSE [call EXCEPT !.pc = "done", !.computed = <<r>>,
                                 !.asked = <<r.send_amount>>, !.status = "conv",
                                 !.conversion = <<[to_amount |-> s.amount, tx_fee |-> s.fee,
                                                   ex_fee |-> r.ex_fee]>>]
    /\ UNCHANGED <<deposits, convs, locks, tasks, sends, refunds, crashes, operated, scanners>>

InitFee ==
    /\ deposits = <<>>
    /\ convs = <<>>
    /\ locks = {}
    /\ tasks = <<>>
    /\ sends = <<>>
    /\ refunds = <<>>
    /\ crashes = 0
    /\ operated = 0
    /\ scanners = <<>>
    /\ call \in { [pc |-> "start", amount |-> a, exchange_rate |-> r, EX_FEE |-> f,
                   status |-> "mapped", computed |-> <<>>, asked |-> <<>>,
                   conversion |-> <<>>] : a \in Amounts, r \in Rates, f \in Fees }

NextFee ==
    \E healthy \in BOOLEAN : \E outcome \in SendOutcomes : \E report \in Reports :
        convert_amounts(healthy, outcome, report)

SpecFee == InitFee /\ [][NextFee]_vars

(***************************************************************************)
(* ConvertCore.refund_sender on its own, for every Deposit and return_to   *)
(***************************************************************************)
RefundRows ==
    { [NewDeposit([txid |-> "t1", coin |-> "SWAP.WAX", vout |-> 0, address |-> a,
                   from_account |-> f, memo |-> NoMemo]) EXCEPT !.status = st] :
        a \in {NULL, "", "X"}, f \in {NULL, "", "alice"},
        st \in {"new", "mapped", "err", "inv", "refund", "conv"} }

refund_sender(outcome) ==
    LET d    == call.deposit
        dest == RefundDest(d, call.return_to)
    IN
    /\ call.pc = "start"
    /\ call' = IF d.status \in {"refund", "conv"}
               THEN [call EXCEPT !.pc = "done", !.exc = "NotRefunding"]
               ELSE IF empty(dest)
               THEN [call EXCEPT !.pc = "done", !.exc = "AttributeError"]
               ELSE IF outcome # "ok"
               THEN [call EXCEPT !.pc = "done", !.exc = outcome]
               ELSE [call EXCEPT !.pc = "done", !.sent_to = <<dest>>,
                                 !.deposit = Refunded(d, dest)]
    /\ UNCHANGED <<deposits, convs, locks, tasks, sends, refunds, crashes, operated, scanners>>

InitRefund ==
    /\ deposits = <<>>
    /\ convs = <<>>
    /\ locks = {}
    /\ tasks = <<>>
    /\ sends = <<>>
    /\ refunds = <<>>
    /\ crashes = 0
    /\ operated = 0
    /\ scanners = <<>>
    /\ call \in { [pc |-> "start", arg |-> d, deposit |-> d, return_to |-> r,
                   sent_to |-> <<>>, exc |-> NULL] :
                   d \in RefundRows, r \in {NULL, "", "R"} }

NextRefund == \E outcome \in SendOutcomes : refund_sender(outcome)

SpecRefund == InitRefund /\ [][NextRefund]_vars

(***************************************************************************)
(* The batch scanner for one coin: the generator BatchLoader._list_txs,    *)
(* pulled record by record by import_batch inside the loop of load_txs.    *)
(***************************************************************************)
\* the loader goes on to its next coin: _list_txs starts afresh
NextCoin(c) ==
    [c EXCEPT !.coin = @ + 1, !.finished = FALSE, !.offset = 0, !.txs_loaded = 0,
              !.last_n = ScanBatch, !.raw = 0, !.held = 0]

\* variant, to test the properties: a short batch does not end the loading
list_txs_batch_CapOnly(n) ==
    /\ call.pc = "import" /\ call.buf = 0 /\ ~call.finished /\ ~call.ended
    /\ call' = [call EXCEPT !.pc = "loaded",
                            !.held = 0,
                            !.raw = n,
                            !.last_n = n,
                            !.txs_loaded = @ + n,
                            !.finished = (call.txs_loaded + n >= tx_count),
                            !.visited = @ \cup {call.coin}]
    /\ UNCHANGED <<deposits, convs, locks, tasks, sends, refunds, crashes, operated, scanners>>

\* a round of the while loop of _list_txs, entered when import_batch asks for
\* a record and none is left of the last batch, whose list is dropped (del
\* txs): load_batch stores n raw records in self.transactions
list_txs_batch(n) ==
    /\ call.pc = "import" /\ call.buf = 0 /\ ~call.finished /\ ~call.ended
    /\ call' = [call EXCEPT !.pc = "loaded",
                            !.held = 0,
                            !.raw = n,
                            !.last_n = n,
                            !.txs_loaded = @ + n,
                            !.finished = (n < ScanBatch \/ call.txs_loaded + n >= tx_count),
                            !.visited = @ \cup {call.coin}]
    /\ UNCHANGED <<deposits, convs, locks, tasks, sends, refunds, crashes, operated, scanners>>

\* txs = list(self.clean_txs(..)): k of the raw records are kept
clean_txs(k) ==
    /\ call.pc = "loaded"
    /\ call' = [call EXCEPT !.pc = "cleaned", !.held = k, !.buf = k]
    /\ UNCHANGED <<deposits, convs, locks, tasks, sends, refunds, crashes, operated, scanners>>

\* variant, to test the properties: the raw records are kept after cleaning
list_txs_release_KeepRaw ==
    /\ call.pc = "cleaned"
    /\ call' = [call EXCEPT !.pc = "import", !.offset = @ + ScanBatch]
    /\ UNCHANGED <<deposits, convs, locks, tasks, sends, refunds, crashes, operated, scanners>>

\* del self.transactions; offset += batch; and the records are yielded
list_txs_release ==
    /\ call.pc = "cleaned"
    /\ call' = [call EXCEPT !.pc = "import", !.raw = 0, !.offset = @ + ScanBatch]
    /\ UNCHANGED <<deposits, convs, locks, tasks, sends, refunds, crashes, operated, scanners>>

\* the exceptions load_batch can raise
LoadErrors == {"DeadAPIError", "Exception"}

\* variant, to test the properties: an exception of one coin ends the loader's scan
list_txs_raise_Abort(exc) ==
    /\ call.pc = "import" /\ call.buf = 0 /\ ~call.finished /\ ~call.ended
    /\ call' = [call EXCEPT !.ended = TRUE, !.held = 0,
                            !.visited = @ \cup {call.coin},
                            !.dead = IF exc = "DeadAPIError" THEN @ \cup {call.coin} ELSE @]
    /\ UNCHANGED <<deposits, convs, locks, tasks, sends, refunds, crashes, operated, scanners>>

\* load_batch raises: list_txs logs it, DeadAPIError or not, and goes on with
\* the next coin of the loader
list_txs_raise(exc) ==
    /\ call.pc = "import" /\ call.buf = 0 /\ ~call.finished /\ ~call.ended
    /\ LET c == [call EXCEPT !.held = 0,
                             !.visited = @ \cup {call.coin},
                             !.dead = IF exc = "DeadAPIError" THEN @ \cup {call.coin} ELSE @]
       IN  call' = IF call.coin < NumCoins THEN NextCoin(c) ELSE [c EXCEPT !.ended = TRUE]
    /\ UNCHANGED <<deposits, convs, locks, tasks, sends, refunds, crashes, operated, scanners>>

\* _list_txs has ended for a coin and list_txs goes on with the next one
list_txs_next_coin ==
    /\ call.pc = "import" /\ call.buf = 0 /\ call.finished /\ ~call.ended
    /\ call.coin < NumCoins
    /\ call' = NextCoin(call)
    /\ UNCHANGED <<deposits, convs, locks, tasks, sends, refunds, crashes, operated, scanners>>

\* import_batch takes a record; with the batch-th record of this call it
\* returns False and load_txs calls it again
import_tx ==
    /\ call.pc = "import" /\ call.buf > 0
    /\ call' = [call EXCEPT !.buf = @ - 1,
                            !.got = @ \cup {call.coin},
                            !.i = IF call.i + 1 >= ScanBatch THEN 0 ELSE call.i + 1,
                            !.imports = IF call.i + 1 >= ScanBatch /\ @ < tx_count
                                        THEN @ + 1 ELSE @]
    /\ UNCHANGED <<deposits, convs, locks, tasks, sends, refunds, crashes, operated, scanners>>

\* the generator is exhausted: import_batch returns i < batch, and the loop
\* of load_txs ends when that is True
import_end ==
    /\ call.pc = "import" /\ call.buf = 0
    /\ (call.finished /\ call.coin = NumCoins) \/ call.ended
    /\ call' = IF call.i < ScanBatch
               THEN [call EXCEPT !.pc = "done", !.held = 0]
               ELSE [call EXCEPT !.i = 0, !.held = 0]
    /\ UNCHANGED <<deposits, convs, locks, tasks, sends, refunds, crashes, operated, scanners>>

InitList ==
    /\ deposits = <<>>
    /\ convs = <<>>
    /\ locks = {}
    /\ tasks = <<>>
    /\ sends = <<>>
    /\ refunds = <<>>
    /\ crashes = 0
    /\ operated = 0
    /\ scanners = <<>>
    /\ call = [pc |-> "import", coin |-> 1, finished |-> FALSE, ended |-> FALSE,
               offset |-> 0, txs_loaded |-> 0, last_n |-> ScanBatch, raw |-> 0,
               held |-> 0, buf |-> 0, i |-> 0, imports |-> 1,
               visited |-> {}, dead |-> {}, got |-> {}]

NextList ==
    \/ \E n \in 0..ScanBatch : list_txs_batch(n)
    \/ \E k \in 0..call.raw : clean_txs(k)
    \/ list_txs_release
    \/ \E exc \in LoadErrors : list_txs_raise(exc)
    \/ list_txs_next_coin
    \/ import_tx
    \/ import_end

\* the scan is one sequential loop: it goes on as long as it has a step
SpecList == InitList /\ [][NextList]_vars /\ WF_vars(NextList)

(***************************************************************************)
(* decorators.retry_on_err: the wrapper around a function f, called with   *)
(* the keyword arguments kwargs.                                           *)
(***************************************************************************)
\* what a call of the wrapped function can do: return, or raise one of these
RetryOutcomes == {"ok", "DeadAPIError", "ConnectionError", "ValueError"}

\* variant, to test the properties: the retry budget is compared with <=
wrapper_OneMore(outcome) ==
    LET retries == IF "retry_attempts" \in DOMAIN call.kwargs
                   THEN call.kwargs["retry_attempts"] ELSE 0
        passed  == [k \in DOMAIN call.kwargs \ {"retry_attempts"} |-> call.kwargs[k]]
        tried   == [call EXCEPT !.attempts = Append(@, [kwargs |-> passed, outcome |-> outcome])]
    IN
    /\ call.pc = "call"
    /\ call' = IF outcome = "ok"
               THEN [tried EXCEPT !.pc = "returned", !.result = "value"]
               ELSE IF outcome \in call.fail_on
               THEN [tried EXCEPT !.pc = "raised", !.result = outcome]
               ELSE IF retries <= call.max_retries
               THEN [tried EXCEPT !.kwargs =
                        [k \in DOMAIN passed \cup {"retry_attempts"} |->
                            IF k = "retry_attempts" THEN retries + 1 ELSE passed[k]]]
               ELSE [tried EXCEPT !.pc = "raised", !.result = outcome]
    /\ UNCHANGED <<deposits, convs, locks, tasks, sends, refunds, crashes, operated, scanners>>

\* variant, to test the properties: fail_on is not looked at
wrapper_NoFailOn(outcome) ==
    LET retries == IF "retry_attempts" \in DOMAIN call.kwargs
                   THEN call.kwargs["retry_attempts"] ELSE 0
        passed  == [k \in DOMAIN call.kwargs \ {"retry_attempts"} |-> call.kwargs[k]]
        tried   == [call EXCEPT !.attempts = Append(@, [kwargs |-> passed, outcome |-> outcome])]
    IN
    /\ call.pc = "call"
    /\ call' = IF outcome = "ok"
               THEN [tried EXCEPT !.pc = "returned", !.result = "value"]
               ELSE IF retries < call.max_retries
               THEN [tried EXCEPT !.kwargs =
                        [k \in DOMAIN passed \cup {"retry_attempts"} |->
                            IF k = "retry_attempts" THEN retries + 1 ELSE passed[k]]]
               ELSE [tried EXCEPT !.pc = "raised", !.result = outcome]
    /\ UNCHANGED <<deposits, convs, locks, tasks, sends, refunds, crashes, operated, scanners>>

\* one run of wrapper(*args, **kwargs): retry_attempts is taken out of the
\* keyword arguments, f is called, and when it raises the wrapper gives up
\* or sleeps and calls itself with retry_attempts = retries + 1
wrapper(outcome) ==
    LET retries == IF "retry_attempts" \in DOMAIN call.kwargs
                   THEN call.kwargs["retry_attempts"] ELSE 0
        passed  == [k \in DOMAIN call.kwargs \ {"retry_attempts"} |-> call.kwargs[k]]
        tried   == [call EXCEPT !.attempts = Append(@, [kwargs |-> passed, outcome |-> outcome])]
    IN
    /\ call.pc = "call"
    /\ call' = IF outcome = "ok"
               THEN [tried EXCEPT !.pc = "returned", !.result = "value"]
               ELSE IF outcome \in call.fail_on
               THEN [tried EXCEPT !.pc = "raised", !.result = outcome]
               ELSE IF retries < call.max_retries
               THEN [tried EXCEPT !.kwargs =
                        [k \in DOMAIN passed \cup {"retry_attempts"} |->
                            IF k = "retry_attempts" THEN retries + 1 ELSE passed[k]]]
               ELSE [tried EXCEPT !.pc = "raised", !.result = outcome]
    /\ UNCHANGED <<deposits, convs, locks, tasks, sends, refunds, crashes, operated, scanners>>

\* the keyword arguments of the first call
FirstKwargs == [symbol |-> "LTC", limit |-> ScanBatch, offset |-> 0]

InitRetry ==
    /\ deposits = <<>>
    /\ convs = <<>>
    /\ locks = {}
    /\ tasks = <<>>
    /\ sends = <<>>
    /\ refunds = <<>>
    /\ crashes = 0
    /\ operated = 0
    /\ scanners = <<>>
    /\ call \in { [pc |-> "call", max_retries |-> m, fail_on |-> fo, kwargs |-> FirstKwargs,
                   attempts |-> <<>>, result |-> NULL] :
                   m \in 0..MaxRetries, fo \in {{}, {"DeadAPIError"}} }

NextRetry == \E outcome \in RetryOutcomes : wrapper(outcome)

SpecRetry == InitRetry /\ [][NextRetry]_vars

(***************************************************************************)
(* coin_handlers: the registry `handlers` (symbol -> loaders, managers)    *)
(* and reload_handlers, which Coin.save calls after every write.           *)
(***************************************************************************)
\* settings.COIN_HANDLERS and settings.PRIVEX_HANDLERS, in loading order
COIN_HANDLERS == <<"SteemEngine", "Bitcoin">>
PRIVEX_HANDLERS == <<"Golos">>
HandlerModules == {"SteemEngine", "Bitcoin", "Golos"}

\* the coin_type a handler module serves
COIN_TYPE(m) == CASE m = "SteemEngine" -> "steemengine"
                  [] m = "Bitcoin"     -> "bitcoind"
                  [] m = "Golos"       -> "golos"

COIN_TYPES == {"steemengine", "bitcoind", "golos"}

\* the symbols a Coin is saved under, as typed
TypedSymbols == { <<"b", "t", "c">>, <<"B", "T", "C">>, <<"E", "N", "G">> }
CoinSymbols == { Str(upper(t)) : t \in TypedSymbols }

\* Coin.objects.filter(coin_type=ty).values_list('symbol')
CoinsOfType(cs, ty) == { sym \in CoinSymbols : cs[sym] = ty }

\* handlers = {}
NoHandlers == [sym \in {} |-> NULL]

\* add_handler: one more instance of the class of module m for every symbol
\* it provides
add_handler(h, m, handler_type, provides) ==
    [sym \in DOMAIN h \cup provides |->
        LET cur == IF sym \in DOMAIN h THEN h[sym] ELSE [loaders |-> <<>>, managers |-> <<>>]
        IN  IF sym \in provides THEN [cur EXCEPT ![handler_type] = Append(@, m)] ELSE cur]

\* how the loading of one module ends: it is imported and registers its
\* loader and its manager ("ok"), fails before it registers anything
\* ("import"), fails after its first class is registered ("partial")
LoadOutcomes == {"ok", "import", "partial"}

\* the body of the try block for one module of COIN_HANDLERS.  The module
\* computes `provides` when it is first imported, and again in its reload()
\* hook, which is only called once the registry has been loaded.
load_handler(h, prov, m, outcome, loaded, cs) ==
    IF outcome = "import" THEN [h |-> h, prov |-> prov]
    ELSE LET provides == IF ~prov[m].imported \/ loaded
                         THEN CoinsOfType(cs, COIN_TYPE(m)) ELSE prov[m].provides
             p        == [prov EXCEPT ![m] = [imported |-> TRUE, provides |-> provides]]
             l        == add_handler(h, m, "loaders", provides)
         IN  IF outcome = "partial" THEN [h |-> l, prov |-> p]
             ELSE [h |-> add_handler(l, m, "managers", provides), prov |-> p]

\* part of the variant reload_NoCatch: the first failing module ends the loop
RECURSIVE load_handlers_StopOnError(_, _, _, _, _, _)
load_handlers_StopOnError(h, prov, i, out, loaded, cs) ==
    IF i > Len(COIN_HANDLERS) THEN [h |-> h, prov |-> prov]
    ELSE LET r == load_handler(h, prov, COIN_HANDLERS[i], out[COIN_HANDLERS[i]], loaded, cs)
         IN  IF out[COIN_HANDLERS[i]] # "ok" THEN r
             ELSE load_handlers_StopOnError(r.h, r.prov, i + 1, out, loaded, cs)

\* for chnd in settings.COIN_HANDLERS: try ... except: log and skip
RECURSIVE load_handlers(_, _, _, _, _, _)
load_handlers(h, prov, i, out, loaded, cs) ==
    IF i > Len(COIN_HANDLERS) THEN [h |-> h, prov |-> prov]
    ELSE LET r == load_handler(h, prov, COIN_HANDLERS[i], out[COIN_HANDLERS[i]], loaded, cs)
         IN  load_handlers(r.h, r.prov, i + 1, out, loaded, cs)

\* init_privex_handler inside its try block: every Coin of the module's type
\* gets the module's manager and then its loader; a failure after the first
\* manager leaves that one coin with a manager only
init_privex_handler(h, m, outcome, cs) ==
    LET hcoins == CoinsOfType(cs, COIN_TYPE(m))
    IN  IF outcome = "import" THEN h
        ELSE IF outcome = "partial"
        THEN IF hcoins = {} THEN h
             ELSE add_handler(h, m, "managers", {CHOOSE sym \in hcoins : TRUE})
        ELSE add_handler(add_handler(h, m, "managers", hcoins), m, "loaders", hcoins)

RECURSIVE load_privex_handlers(_, _, _, _)
load_privex_handlers(h, i, out, cs) ==
    IF i > Len(PRIVEX_HANDLERS) THEN h
    ELSE load_privex_handlers(
            init_privex_handler(h, PRIVEX_HANDLERS[i], out[PRIVEX_HANDLERS[i]], cs),
            i + 1, out, cs)

\* what one call of reload_handlers meets: whether every migration is
\* applied, and how the loading of each module ends.  At most one module
\* fails in a call, and none is loaded when migrations are pending.
ReloadEnvs ==
    { e \in [synced : BOOLEAN, out : [HandlerModules -> LoadOutcomes]] :
        /\ \A m, n \in HandlerModules : (e.out[m] # "ok" /\ e.out[n] # "ok") => m = n
        /\ ~e.synced => \A m \in HandlerModules : e.out[m] = "ok" }

\* for the properties: this call meets what the call before it met
Repeated(c, cs, env) == c.reloads > 0 /\ cs = c.coins /\ env = c.env

\* variant, to test the properties: the registry is not emptied first
reload_KeepOld(c, cs, env) ==
    IF ~env.synced
    THEN [c EXCEPT !.coins = cs, !.env = env, !.reloads = 1, !.repeated = Repeated(c, cs, env)]
    ELSE LET r == load_handlers(c.handlers, c.provides, 1, env.out, c.handlers_loaded, cs)
         IN  [c EXCEPT !.coins = cs, !.env = env, !.reloads = 1, !.repeated = Repeated(c, cs, env), !.provides = r.prov,
                       !.handlers = load_privex_handlers(r.h, 1, env.out, cs),
                       !.handlers_loaded = TRUE]

\* variant, to test the properties: the failure of a module is not caught
reload_NoCatch(c, cs, env) ==
    IF ~env.synced
    THEN [c EXCEPT !.coins = cs, !.env = env, !.reloads = 1, !.repeated = Repeated(c, cs, env), !.handlers = NoHandlers]
    ELSE LET r == load_handlers_StopOnError(NoHandlers, c.provides, 1, env.out, c.handlers_loaded, cs)
             failed == \E m \in HandlerModules : env.out[m] # "ok"
         IN  [c EXCEPT !.coins = cs, !.env = env, !.reloads = 1, !.repeated = Repeated(c, cs, env), !.provides = r.prov,
                       !.handlers = IF failed THEN r.h ELSE load_privex_handlers(r.h, 1, env.out, cs),
                       !.handlers_loaded = IF failed THEN @ ELSE TRUE]

\* reload_handlers() with the Coin table cs
reload(c, cs, env) ==
    IF ~env.synced
    THEN [c EXCEPT !.coins = cs, !.env = env, !.reloads = 1, !.repeated = Repeated(c, cs, env), !.handlers = NoHandlers]
    ELSE LET r == load_handlers(NoHandlers, c.provides, 1, env.out, c.handlers_loaded, cs)
         IN  [c EXCEPT !.coins = cs, !.env = env, !.reloads = 1, !.repeated = Repeated(c, cs, env), !.provides = r.prov,
                       !.handlers = load_privex_handlers(r.h, 1, env.out, cs),
                       !.handlers_loaded = TRUE]

\* a call of reload_handlers that no Coin write precedes
reload_handlers(env) ==
    /\ call' = reload(call, call.coins, env)
    /\ UNCHANGED <<deposits, convs, locks, tasks, sends, refunds, crashes, operated, scanners>>

\* Coin.save: the symbol is upper-cased, the row is written, and the
\* registry is reloaded
Coin_save(typed, coin_type, env) ==
    /\ call' = reload(call, [call.coins EXCEPT ![Str(upper(typed))] = coin_type], env)
    /\ UNCHANGED <<deposits, convs, locks, tasks, sends, refunds, crashes, operated, scanners>>

InitHandlers ==
    /\ deposits = <<>>
    /\ convs = <<>>
    /\ locks = {}
    /\ tasks = <<>>
    /\ sends = <<>>
    /\ refunds = <<>>
    /\ crashes = 0
    /\ operated = 0
    /\ scanners = <<>>
    /\ call = [coins |-> [sym \in CoinSymbols |-> NULL], handlers |-> NoHandlers,
               handlers_loaded |-> FALSE,
               provides |-> [m \in HandlerModules |-> [imported |-> FALSE, provides |-> {}]],
               reloads |-> 0, repeated |-> FALSE,
               env |-> [synced |-> FALSE, out |-> [m \in HandlerModules |-> "ok"]]]

NextHandlers ==
    \/ \E env \in ReloadEnvs : reload_handlers(env)
    \/ \E typed \in TypedSymbols, coin_type \in COIN_TYPES, env \in ReloadEnvs :
          Coin_save(typed, coin_type, env)

SpecHandlers == InitHandlers /\ [][NextHandlers]_vars

(***************************************************************************)
(* Deferred conversions: convert_deposit runs that keep being queued for   *)
(* the Deposits in status mapped, with a destination Mover that is down or *)
(* out of funds at first and recovers.                                     *)
(***************************************************************************)
\* what the destination Mover answers while it is in state m
MoverAnswers(m) ==
    CASE m = "unhealthy" -> {"unhealthy"}
      [] m = "unfunded"  -> {"NotEnoughBalance"}
      [] m = "ok"        -> {"ok"}

\* the node comes back, or the hot wallet is refilled
Mover_recovers ==
    /\ call.mover # "ok"
    /\ call' = [call EXCEPT !.mover = "ok"]
    /\ UNCHANGED <<deposits, convs, locks, tasks, sends, refunds, crashes, operated, scanners>>

\* convert_deposit up to the Mover's answer, with the Mover as it is now
convert_send_now(t) ==
    /\ convert_send(t)
    /\ tasks'[t].mover \in {NULL} \cup MoverAnswers(call.mover)

InitLater ==
    /\ deposits \in { tbl \in DepositTables : tbl[1].status = "mapped" }
    /\ convs = [i \in DOMAIN deposits |-> 0]
    /\ locks = {}
    /\ tasks = <<>>
    /\ sends = [i \in DOMAIN deposits |-> 0]
    /\ refunds = [i \in DOMAIN deposits |-> 0]
    /\ crashes = 0
    /\ operated = 0
    /\ scanners = <<>>
    /\ call \in { [mover |-> m] : m \in {"unhealthy", "unfunded"} }

NextLater ==
    \/ \E dep \in DepositIds : Dispatch("convert_deposit", dep)
    \/ \E t \in TaskIds : ReadDeposit(t)
    \/ \E t \in TaskIds : AcquireLock(t)
    \/ \E t \in TaskIds : convert_send_now(t)
    \/ \E t \in TaskIds : convert_commit(t)
    \/ \E t \in TaskIds : HandleResult(t)
    \/ Mover_recovers

\* what every step of NextLater changes: a task is queued, moves on or is
\* handled, or the Mover recovers
LaterProgress ==
    <<Len(tasks), [t \in TaskIds |-> tasks[t].pc], [t \in TaskIds |-> tasks[t].task_read], call>>

\* every run that can be queued is queued, every queued task runs and is
\* handled, and the Mover recovers
SpecLater == InitLater /\ [][NextLater]_vars /\ WF_LaterProgress(NextLater)

(***************************************************************************)
(* Waits that time out: the pipeline on a table of two Deposits, with      *)
(* handlers that give up waiting for a task's result.                      *)
(***************************************************************************)
\* two Deposits of different transactions
TwoDepositTables ==
    { <<a, b>> : a \in {r \in StoredRows : r.txid = "t1" /\ r.vout = 0},
                 b \in {r \in StoredRows : r.txid = "t2"} }

InitTimeout ==
    /\ deposits \in TwoDepositTables
    /\ convs = [i \in DOMAIN deposits |-> 0]
    /\ locks = {}
    /\ tasks = <<>>
    /\ sends = [i \in DOMAIN deposits |-> 0]
    /\ refunds = [i \in DOMAIN deposits |-> 0]
    /\ crashes = 0
    /\ operated = 0
    /\ scanners = <<>>
    /\ call = NULL

NextTimeout ==
    \/ \E dep \in DepositIds : \E kind \in {"check_deposit", "convert_deposit"} : Dispatch(kind, dep)
    \/ \E t \in TaskIds : ReadDeposit(t)
    \/ \E t \in TaskIds : AcquireLock(t)
    \/ \E t \in TaskIds : check_deposit(t)
    \/ \E t \in TaskIds : convert_send(t)
    \/ \E t \in TaskIds : convert_commit(t)
    \/ \E t \in TaskIds : HandleResult(t)
    \/ \E t \in TaskIds : HandleTimeout(t)

SpecTimeout == InitTimeout /\ [][NextTimeout]_vars

(***************************************************************************)
(* The Mover calls of one conversion: ConvertCore.convert's choice between *)
(* send_or_issue and send, and EOSManager.send_or_issue.  call holds the   *)
(* coin's can_issue flag, the Mover class, the caller, whether our_account *)
(* holds enough, and the sequence of Mover operations that ran.            *)
(***************************************************************************)
\* Mover classes of the repository; EOSManager defines send_or_issue and
\* issue, the other three inherit them from it
IssuingMovers == {"EOSManager", "WAXManager", "CWManager", "AppicsManager"}

MoverClasses == IssuingMovers \cup {"BitcoinManager"}

\* payments.lib.ConvertCore passes trigger_data, the command's own
\* ConvertCore does not
ConvertCallers == {"lib", "command"}

\* does the method of the Mover class take the keyword trigger_data
AcceptsTriggerData(mgr, method) ==
    mgr = "AppicsManager" /\ method \in {"send", "issue"}

\* variant, to test the properties: send_or_issue for every coin
convert_method_AlwaysIssue(may_issue) == "send_or_issue"

\* the Mover method convert calls
convert_method(may_issue) ==
    IF may_issue THEN "send_or_issue" ELSE "send"

Raise(exc) == [call EXCEPT !.pc = "raised", !.exc = exc]

\* convert calls the Mover; a keyword the method does not take is a TypeError
convert_call ==
    /\ call.pc = "convert"
    /\ LET method == convert_method(call.can_issue)
           td     == call.caller = "lib"
       IN  call' =
             IF td /\ ~AcceptsTriggerData(call.mgr, method)
             THEN Raise("TypeError")
             ELSE [call EXCEPT !.pc = IF method = "send" THEN "send" ELSE "soi_send",
                               !.trigger_data = td /\ method = "send"]
    /\ UNCHANGED <<deposits, convs, locks, tasks, sends, refunds, crashes,
                   operated, scanners>>

\* what a transfer from our_account can answer: validate_amount raises
\* NotEnoughBalance when the balance is short
TransferOutcomes(funded) ==
    {IF funded THEN "ok" ELSE "NotEnoughBalance", "AccountNotFound", "Exception"}

\* what an issue or a mint can answer: validate_amount is called without
\* from_account
IssueOutcomes == {"ok", "AccountNotFound", "Exception"}

Ran(op, action, outcome) ==
    Append(call.calls, [op |-> op, action |-> action, outcome |-> outcome])

\* EOSManager.send, and AppicsManager.send which reads trigger_data and
\* broadcasts a mint for a conversion
send(outcome) ==
    /\ call.pc \in {"send", "soi_send", "soi_resend"}
    /\ IF call.mgr = "AppicsManager"
       THEN IF ~call.trigger_data
            THEN /\ outcome = "AttributeError"
                 /\ call' = Raise("AttributeError")
            ELSE /\ outcome \in IssueOutcomes
                 /\ call' = [call EXCEPT
                        !.calls = Ran("send", "mint", outcome),
                        !.pc = IF outcome = "ok" THEN "sent" ELSE "raised",
                        !.exc = IF outcome = "ok" THEN NULL ELSE outcome]
       ELSE /\ outcome \in TransferOutcomes(call.funded)
            /\ call' = [call EXCEPT
                   !.calls = Ran("send", "transfer", outcome),
                   !.pc = IF outcome = "ok" THEN "sent"
                          ELSE IF outcome = "NotEnoughBalance" /\ call.pc = "soi_send"
                               THEN "soi_issue"
                               ELSE "raised",
                   !.exc = IF outcome = "ok"
                              \/ (outcome = "NotEnoughBalance" /\ call.pc = "soi_send")
                           THEN NULL ELSE outcome,
                   !.send_type = IF outcome = "ok" /\ call.pc = "soi_resend"
                                 THEN "issue"
                                 ELSE IF outcome = "ok" THEN "send" ELSE NULL]
    /\ UNCHANGED <<deposits, convs, locks, tasks, sends, refunds, crashes,
                   operated, scanners>>

\* EOSManager.issue to our_account, called by send_or_issue after
\* NotEnoughBalance
issue(outcome) ==
    /\ call.pc = "soi_issue"
    /\ call' = [call EXCEPT
           !.calls = Ran("issue", "issue", outcome),
           !.funded = call.funded \/ outcome = "ok",
           !.pc = IF outcome = "ok" THEN "soi_resend" ELSE "raised",
           !.exc = IF outcome = "ok" THEN NULL ELSE outcome]
    /\ UNCHANGED <<deposits, convs, locks, tasks, sends, refunds, crashes,
                   operated, scanners>>

InitIssue ==
    /\ deposits = <<>>
    /\ convs = [dep \in DepositIds |-> 0]
    /\ locks = {}
    /\ tasks = <<>>
    /\ sends = [dep \in DepositIds |-> 0]
    /\ refunds = [dep \in DepositIds |-> 0]
    /\ crashes = 0
    /\ operated = 0
    /\ scanners = <<>>
    /\ \E mgr \in MoverClasses, caller \in ConvertCallers,
          may_issue \in BOOLEAN, funded \in BOOLEAN :
         /\ may_issue => mgr \in IssuingMovers
         /\ call = [pc |-> "convert", mgr |-> mgr, caller |-> caller,
                    can_issue |-> may_issue, funded |-> funded,
                    trigger_data |-> FALSE, calls |-> <<>>, exc |-> NULL,
                    send_type |-> NULL]

NextIssue ==
    \/ convert_call
    \/ \E outcome \in SendOutcomes \cup {"AttributeError"} :
         send(outcome)
    \/ \E outcome \in IssueOutcomes : issue(outcome)

SpecIssue == InitIssue /\ [][NextIssue]_vars

(***************************************************************************)
(* convert_deposit with its dry argument.  call.dry is the argument every  *)
(* run of the converter passes (the command's --dry option).               *)
(***************************************************************************)
\* variant, to test the properties: the dry argument is not looked at
dry_or_convert_IgnoresDry(t, dry, healthy, outcome) ==
    convert(t, healthy, outcome)

\* if dry: log and return None / True, else ConvertCore.convert
dry_or_convert(t, dry, healthy, outcome) ==
    IF dry
    THEN /\ tasks' = Finish(t, NULL)
         /\ locks' = Release(t)
         /\ UNCHANGED sends
    ELSE convert(t, healthy, outcome)

\* tasks.convert_deposit(deposit_id, dry) under its lock, up to the return
\* of the dry run or of the Mover
convert_deposit(t) ==
    LET k == tasks[t] IN
    /\ k.pc = "locked" /\ k.kind = "convert_deposit"
    /\ IF k.d.status # "mapped"
       THEN /\ tasks' = Finish(t, "ConvertError")
            /\ locks' = Release(t)
            /\ UNCHANGED sends
       ELSE IF empty(k.d.convert_to) \/ empty(k.d.convert_dest_address)
       THEN /\ tasks' = Finish(t, "ConvertError")
            /\ locks' = Release(t)
            /\ UNCHANGED sends
       ELSE IF ~PairExists(k.d.coin, k.d.convert_to)
       THEN /\ tasks' = Finish(t, "ConvertInvalid")
            /\ locks' = Release(t)
            /\ UNCHANGED sends
       ELSE \E healthy \in BOOLEAN : \E outcome \in SendOutcomes :
                dry_or_convert(t, call.dry, healthy, outcome)
    /\ UNCHANGED <<deposits, convs, refunds, crashes, operated, scanners, call>>

InitDry ==
    /\ deposits \in DepositTables
    /\ convs = [dep \in DepositIds |-> 0]
    /\ locks = {}
    /\ tasks = <<>>
    /\ sends = [dep \in DepositIds |-> 0]
    /\ refunds = [dep \in DepositIds |-> 0]
    /\ crashes = 0
    /\ operated = 0
    /\ scanners = <<>>
    /\ call \in [dry : BOOLEAN]

NextDry ==
    \/ \E dep \in DepositIds : Dispatch("convert_deposit", dep)
    \/ \E t \in TaskIds : ReadDeposit(t)
    \/ \E t \in TaskIds : AcquireLock(t)
    \/ \E t \in TaskIds : convert_deposit(t)
    \/ \E t \in TaskIds : convert_commit(t)
    \/ \E t \in TaskIds : HandleResult(t)

SpecDry == InitDry /\ [][NextDry]_vars

(***************************************************************************)
(* _list_txs over a source whose history is a fixed list (MockLoader's     *)
(* fake_txs): the offsets requested, the raw records fetched and the       *)
(* records yielded, each by its place in the history.                      *)
(***************************************************************************)
MaxHistory == 9

\* the histories: record i is the i-th of the source, and is of the scanned
\* coin or of another one
Histories ==
    UNION { { [i \in 1..len |-> [place |-> i, ours |-> flags[i]]] :
                flags \in [1..len -> BOOLEAN] } : len \in 0..MaxHistory }

\* MockLoader.load_batch: fake_txs[offset:offset + limit]
load_batch(history, limit, offset) ==
    SubSeq(history, offset + 1,
           IF offset + limit < Len(history) THEN offset + limit ELSE Len(history))

OfCoin(tx) == tx.ours

\* MockLoader.clean_txs keeps the records of the scanned coin, in order
mock_clean_txs(transactions) == SelectSeq(transactions, OfCoin)

\* variant, to test the properties: the next batch starts one record early
next_offset_Overlap(offset, batch) == offset + batch - 1

\* offset += batch
next_offset(offset, batch) == offset + batch

\* a round of the while loop of _list_txs up to its first yield
list_txs_load ==
    /\ call.pc = "load" /\ ~call.finished
    /\ LET transactions == load_batch(call.history, ScanBatch, call.offset)
           txs_loaded   == call.txs_loaded + Len(transactions)
       IN  call' = [call EXCEPT
                      !.pc = "yield",
                      !.requested = Append(@, call.offset),
                      !.fetched = @ \o transactions,
                      !.txs_loaded = txs_loaded,
                      !.finished = (Len(transactions) < ScanBatch \/ txs_loaded >= tx_count),
                      !.txs = mock_clean_txs(transactions),
                      !.offset = next_offset(call.offset, ScanBatch)]
    /\ UNCHANGED <<deposits, convs, locks, tasks, sends, refunds, crashes, operated, scanners>>

\* for tx in txs: yield tx
list_txs_yield ==
    /\ call.pc = "yield" /\ call.txs # <<>>
    /\ call' = [call EXCEPT !.yielded = Append(@, Head(call.txs)),
                            !.txs = Tail(call.txs)]
    /\ UNCHANGED <<deposits, convs, locks, tasks, sends, refunds, crashes, operated, scanners>>

\* del txs, and the while loop goes round or ends
list_txs_loop ==
    /\ call.pc = "yield" /\ call.txs = <<>>
    /\ call' = [call EXCEPT !.pc = IF call.finished THEN "done" ELSE "load"]
    /\ UNCHANGED <<deposits, convs, locks, tasks, sends, refunds, crashes, operated, scanners>>

InitPage ==
    /\ deposits = <<>>
    /\ convs = <<>>
    /\ locks = {}
    /\ tasks = <<>>
    /\ sends = <<>>
    /\ refunds = <<>>
    /\ crashes = 0
    /\ operated = 0
    /\ scanners = <<>>
    /\ \E history \in Histories :
         call = [pc |-> "load", history |-> history, finished |-> FALSE,
                 offset |-> 0, txs_loaded |-> 0, txs |-> <<>>,
                 requested |-> <<>>, fetched |-> <<>>, yielded |-> <<>>]

NextPage ==
    \/ list_txs_load
    \/ list_txs_yield
    \/ list_txs_loop

SpecPage == InitPage /\ [][NextPage]_vars

(***************************************************************************)
(* BatchLoader.load: self.coins is a dict from symbol to Coin, kept here   *)
(* as the list of its items in insertion order; the for loop walks the     *)
(* dict's items() view while the body deletes from the dict.               *)
(***************************************************************************)
MaxLoaderCoins == 3

\* Coin.our_account: null, blank or an account name
OurAccounts == {NULL, "", "privex"}

\* the dicts BaseLoader's constructor builds: {c.symbol: c for c in coins}
LoaderCoins ==
    UNION { { [i \in 1..n |-> [symbol |-> i, our_account |-> acc[i]]] :
                acc \in [1..n -> OurAccounts] } : n \in 0..MaxLoaderCoins }

\* del self.coins[symbol]
del_coin(coins, symbol) ==
    SelectSeq(coins, LAMBDA c : c.symbol # symbol)

\* load() up to the for loop
load_begin ==
    /\ call.pc = "load"
    /\ call' = IF ~call.need_account
               THEN [call EXCEPT !.pc = "returned", !.loaded = TRUE]
               ELSE [call EXCEPT !.pc = "for", !.di_used = Len(call.coins), !.di_pos = 1]
    /\ UNCHANGED <<deposits, convs, locks, tasks, sends, refunds, crashes, operated, scanners>>

\* one round of for symbol, coin in self.coins.items(): the dict iterator
\* first compares the dict's size with the size it started with and raises
\* RuntimeError if they differ, then ends or hands out the next item
load_for ==
    /\ call.pc = "for"
    /\ call' =
         IF call.di_used # Len(call.coins)
         THEN [call EXCEPT !.pc = "raised", !.exc = "RuntimeError"]
         ELSE IF call.di_pos > Len(call.coins)
         THEN [call EXCEPT !.pc = "returned", !.loaded = TRUE]
         ELSE LET coin == call.coins[call.di_pos] IN
              IF ~empty(coin.our_account)
              THEN [call EXCEPT !.di_pos = @ + 1]
              ELSE [call EXCEPT
                      !.di_pos = @ + 1,
                      !.coins = del_coin(@, coin.symbol),
                      !.symbols = SelectSeq(@, LAMBDA s : s # coin.symbol)]
    /\ UNCHANGED <<deposits, convs, locks, tasks, sends, refunds, crashes, operated, scanners>>

InitLoad ==
    /\ deposits = <<>>
    /\ convs = <<>>
    /\ locks = {}
    /\ tasks = <<>>
    /\ sends = <<>>
    /\ refunds = <<>>
    /\ crashes = 0
    /\ operated = 0
    /\ scanners = <<>>
    /\ \E coins \in LoaderCoins, need_account \in BOOLEAN :
         call = [pc |-> "load", configured |-> coins, coins |-> coins,
                 symbols |-> [i \in 1..Len(coins) |-> coins[i].symbol],
                 need_account |-> need_account, loaded |-> FALSE,
                 di_used |-> 0, di_pos |-> 0, exc |-> NULL]

NextLoad ==
    \/ load_begin
    \/ load_for

SpecLoad == InitLoad /\ [][NextLoad]_vars

(***************************************************************************)
(* The two writes that end ConvertCore.convert, deposit.save() with status *)
(* conv and Conversion.save(), inside the atomic block of convert_deposit. *)
(***************************************************************************)
\* what Conversion.save() can do besides the refusal of a second row
SaveOutcomes == {"ok", "DatabaseError"}

\* variant, to test the properties: the writes are not in one transaction
RolledBack_NotAtomic(before, written) == written

\* an exception leaves the with transaction.atomic() block: the row is as
\* it was before the block
RolledBack(before, written) == before

convert_save(t, outcome) ==
    LET k == tasks[t] IN
    /\ k.pc = "sent" /\ k.kind = "convert_deposit"
    /\ locks' = Release(t)
    /\ IF ConversionRefused(k.dep) \/ outcome # "ok"
       THEN /\ tasks' = Finish(t, IF ConversionRefused(k.dep) THEN "IntegrityError" ELSE outcome)
            /\ deposits' = [deposits EXCEPT ![k.dep] = RolledBack(@, Converted(k.d))]
            /\ UNCHANGED convs
       ELSE /\ deposits' = [deposits EXCEPT ![k.dep] = Converted(k.d)]
            /\ convs' = [convs EXCEPT ![k.dep] = @ + 1]
            /\ tasks' = Finish(t, NULL)
    /\ UNCHANGED <<sends, refunds, crashes, operated, scanners, call>>

InitCommit ==
    /\ deposits \in { tbl \in DepositTables : tbl[1].status = "mapped" }
    /\ convs = [dep \in DepositIds |-> 0]
    /\ locks = {}
    /\ tasks = <<>>
    /\ sends = [dep \in DepositIds |-> 0]
    /\ refunds = [dep \in DepositIds |-> 0]
    /\ crashes = 0
    /\ operated = 0
    /\ scanners = <<>>
    /\ call = NULL

NextCommit ==
    \/ \E dep \in DepositIds : Dispatch("convert_deposit", dep)
    \/ \E t \in TaskIds : ReadDeposit(t)
    \/ \E t \in TaskIds : AcquireLock(t)
    \/ \E t \in TaskIds : convert_send(t)
    \/ \E t \in TaskIds : \E outcome \in SaveOutcomes : convert_save(t, outcome)
    \/ \E t \in TaskIds : Crash(t)
    \/ \E t \in TaskIds : HandleResult(t)
    \/ \E t \in TaskIds : HandleTimeout(t)
    \/ \E dep \in DepositIds : refund_deposits(dep)

SpecCommit == InitCommit /\ [][NextCommit]_vars

(***************************************************************************)
(* Properties.                                                             *)
(***************************************************************************)
ConvertTasks(dep) ==
    { t \in TaskIds : tasks[t].kind = "convert_deposit" /\ tasks[t].dep = dep }

\* the handler of task t runs in this step
Handled(t) == ~tasks[t].task_read /\ tasks'[t].task_read

\* C1: of the workers that run convert_deposit on one Deposit, serialised by
\* the lock convert_deposit:<id>, at most one reaches the Mover's send.
C1_OneWorkerReachesSend ==
    \A dep \in DepositIds : \A t, u \in ConvertTasks(dep) :
        (tasks[t].s # NULL /\ tasks[u].s # NULL) => t = u

\* C2: whatever attempts, retries and worker crashes occur, the outbound
\* transfer of a Deposit is sent no more than once.
C2_SentAtMostOnce == \A dep \in DepositIds : sends[dep] <= 1

\* C3: in every reachable state a Deposit has at most one Conversion row.
C3_AtMostOneConversion == \A dep \in DepositIds : convs[dep] <= 1

\* C3 witness: a Conversion exists and a second convert attempt on the same
\* Deposit, which had sent too, was refused its Conversion.
C3_Witness ==
    \E t \in TaskIds :
        /\ tasks[t].kind = "convert_deposit" /\ tasks[t].exc = "IntegrityError"
        /\ convs[tasks[t].dep] = 1

\* C4: a Deposit's status becomes conv, and a Conversion row is created, only
\* in the commit of a convert attempt whose send has returned, and then both
\* happen together; an attempt without a returned send does neither.
C4_ConvOnlyAfterSend ==
    [][ \A dep \in DepositIds :
          ( \/ (deposits'[dep].status = "conv" /\ deposits[dep].status # "conv")
            \/ convs'[dep] > convs[dep] )
          => /\ \E t \in ConvertTasks(dep) :
                   tasks[t].pc = "sent" /\ tasks[t].s # NULL /\ tasks'[t].pc \in {"done", "gone"}
             /\ deposits'[dep].status = "conv"
             /\ convs'[dep] = 1 ]_vars

\* C4 witness: a convert attempt has sent and committed: the Deposit is in
\* conv and has its Conversion.
C4_Witness ==
    \E t \in TaskIds :
        /\ tasks[t].kind = "convert_deposit" /\ tasks[t].pc = "done"
        /\ tasks[t].exc = NULL /\ tasks[t].s # NULL
        /\ deposits[tasks[t].dep].status = "conv" /\ convs[tasks[t].dep] = 1

\* a convert or refund attempt on the Deposit, or the handling of its result,
\* takes this step
AttemptStep(dep) ==
    \E t \in TaskIds :
        /\ tasks[t].kind \in {"convert_deposit", "auto_refund"}
        /\ tasks[t].dep = dep
        /\ (tasks'[t].pc # tasks[t].pc \/ tasks'[t].task_read # tasks[t].task_read)

\* C5: a Deposit in status conv or refund is never mutated by a later convert
\* or refund attempt nor by the handling of its failure: the status stays.
C5_TerminalStatusKept ==
    [][ \A dep \in DepositIds :
          (deposits[dep].status \in {"conv", "refund"} /\ AttemptStep(dep))
          => deposits'[dep].status = deposits[dep].status ]_vars

\* C6: after any number of scans, re-scans and concurrent scans, no two
\* Deposit rows have equal (txid, coin, vout).
C6_UniqueDeposits ==
    \A i, j \in DepositIds : i < j => Key(deposits[i]) # Key(deposits[j])

\* C6 witness: a scan has found no stored row for a record, and when it comes
\* to save the row another scan has stored the same record meanwhile.
C6_Witness ==
    \E n \in ScanIds :
        /\ scanners[n].pc = "save"
        /\ \E j \in DepositIds :
              Key(deposits[j]) = Key(NewDeposit(Stream(scanners[n].symbol)[scanners[n].pos]))

\* C7: the status of a Deposit becomes mapped only from new and becomes conv
\* only from mapped, for every interleaving of workers.
C7_SequentialTransitions ==
    [][ \A dep \in DepositIds :
          /\ (deposits'[dep].status = "mapped" /\ deposits[dep].status # "mapped")
                => deposits[dep].status = "new"
          /\ (deposits'[dep].status = "conv" /\ deposits[dep].status # "conv")
                => deposits[dep].status = "mapped" ]_vars

\* C8: the status of a Deposit becomes refund only from mapped or err and only
\* by a refund action (auto_refund with refund_sender, or the operator's refund).
C8_RefundOnlyFromMappedOrErr ==
    [][ \A dep \in DepositIds :
          (deposits'[dep].status = "refund" /\ deposits[dep].status # "refund")
          => deposits[dep].status \in {"mapped", "err"} ]_vars

\* C9: when the Mover raised NotEnoughBalance in the conversion of a mapped
\* Deposit, the Deposit is in status mapped after the attempt and its error
\* handling, and has no Conversion.
C9_NotEnoughBalanceStaysMapped ==
    [][ \A t \in TaskIds :
          (tasks[t].kind = "convert_deposit" /\ tasks[t].mover = "NotEnoughBalance" /\ Handled(t))
          => /\ deposits'[tasks[t].dep].status = "mapped"
             /\ convs'[tasks[t].dep] = 0 ]_vars

\* C10: when the Mover's health check failed, the attempt has sent nothing and
\* is no error: after the attempt and its handling the Deposit is in status
\* mapped with last_convert_attempt stamped.
C10_UnhealthyStaysMapped ==
    [][ \A t \in TaskIds :
          (tasks[t].kind = "convert_deposit" /\ tasks[t].mover = "unhealthy" /\ Handled(t))
          => /\ tasks[t].s = NULL
             /\ deposits'[tasks[t].dep].status = "mapped"
             /\ deposits'[tasks[t].dep].last_convert_attempt ]_vars

\* C11: a worker that finds the Deposit's lock held skips the Deposit: it has
\* sent nothing, and neither it nor the handling of its Locked result changes
\* the Deposit's row (status, error_reason) or queues anything for it.
C11_LockedIsSkipped ==
    [][ \A t \in TaskIds :
          /\ (tasks[t].pc = "read" /\ tasks'[t].pc = "done" /\ tasks'[t].exc = "Locked")
                => /\ UNCHANGED <<deposits, convs, sends, refunds>>
                   /\ tasks'[t].s = NULL
          /\ (tasks[t].pc = "done" /\ tasks[t].exc = "Locked" /\ Handled(t))
                => /\ UNCHANGED <<deposits, convs, sends, refunds>>
                   /\ tasks[t].s = NULL
                   /\ Len(tasks') = Len(tasks) ]_vars

\* C11 witness: a convert_deposit task has ended with Locked while another
\* worker holds the lock of its Deposit.
C11_Witness ==
    \E t \in TaskIds :
        /\ tasks[t].kind = "convert_deposit" /\ tasks[t].pc = "done" /\ tasks[t].exc = "Locked"
        /\ IsLocked("convert_deposit", tasks[t].dep)

\* the memos of CheckMemos that hold fewer than two tokens
FewerThanTwoTokens == { NoMemo, <<>>, <<" ", " ">>, <<"h", "i">>, <<"m", "1">>, <<"m", "2">>, <<"m", "3">> }

\* C12: a Deposit with neither memo nor address, or with a memo (and no
\* address) of fewer than two tokens, is invalid: once a check_deposit run on
\* it has been handled, its status is inv, never err.
C12_UnroutableIsInvalid ==
    [][ \A t \in TaskIds :
          ( /\ tasks[t].kind = "check_deposit" /\ tasks[t].pc = "done"
            /\ tasks[t].exc # "Locked" /\ Handled(t)
            /\ empty(deposits[tasks[t].dep].address)
            /\ deposits[tasks[t].dep].memo \in FewerThanTwoTokens )
          => deposits'[tasks[t].dep].status = "inv" ]_vars

C12_Witness ==
    \E dep \in DepositIds :
        /\ deposits[dep].status = "inv" /\ deposits[dep].address = NULL
        /\ deposits[dep].memo = <<"h", "i">>
        /\ \E t \in TaskIds : tasks[t].pc = "gone"

\* memos and what the memo routing is to make of them: the conversion's
\* destination coin, address and memo
MemoExamples ==
    { [memo |-> <<"l", "t", "c", " ", "a", "b">>,
       to |-> "LTC", address |-> "ab", dest_memo |-> <<>>],
      [memo |-> <<" ", "l", "t", "c", "\t", "a", "b", " ">>,
       to |-> "LTC", address |-> "ab", dest_memo |-> <<>>],
      [memo |-> <<"L", "T", "C", " ", "a", "b", "c", "1", "2", "3", " ", "h", "e", "l", "l", "o", " ", "w", "o", "r", "l", "d">>,
       to |-> "LTC", address |-> "abc123", dest_memo |-> <<"h", "e", "l", "l", "o", " ", "w", "o", "r", "l", "d">>],
      [memo |-> <<"l", "t", "c", " ", "a", "b", " ", "c", "d", " ", " ", "e", "f">>,
       to |-> "LTC", address |-> "ab", dest_memo |-> <<"c", "d", " ", "e", "f">>],
      [memo |-> <<"s", "w", "a", "p", ".", "w", "a", "x", " ", "b", "o", "b", " ", "m", "e", "m", "o">>,
       to |-> "SWAP.WAX", address |-> "bob", dest_memo |-> <<"m", "e", "m", "o">>] }

\* C15: a Deposit with a memo and no address is routed by its memo: the
\* first token, upper-cased, is the destination coin, the second token the
\* destination address, and the remaining tokens joined by single spaces the
\* destination memo (empty when there are two tokens only).
C15_MemoRouting ==
    \A dep \in DepositIds : \A ex \in MemoExamples :
        ( /\ deposits[dep].status = "mapped" /\ empty(deposits[dep].address)
          /\ deposits[dep].memo = ex.memo )
        => /\ deposits[dep].convert_to = ex.to
           /\ deposits[dep].convert_dest_address = ex.address
           /\ deposits[dep].convert_dest_memo = ex.dest_memo

C15_Witness ==
    \E dep \in DepositIds :
        /\ deposits[dep].status = "mapped" /\ deposits[dep].address = NULL
        /\ deposits[dep].coin = "SWAP.WAX"
        /\ deposits[dep].memo = <<"L", "T", "C", " ", "a", "b", "c", "1", "2", "3", " ", "h", "e", "l", "l", "o", " ", "w", "o", "r", "l", "d">>

\* LTC deposit addresses and memos, and the destination their
\* AddressAccountMap row gives (to = NULL: no row is to match)
MapExamples ==
    { [deposit_address |-> "X", memo |-> NoMemo,
       to |-> "SWAP.WAX", address |-> "bob", dest_memo |-> NoMemo],
      [deposit_address |-> "X", memo |-> <<>>,
       to |-> "SWAP.WAX", address |-> "bob", dest_memo |-> NoMemo],
      [deposit_address |-> "Z", memo |-> <<"m", "1">>,
       to |-> "SWAP.WAX", address |-> "carol", dest_memo |-> <<"d", "m">>],
      [deposit_address |-> "Z", memo |-> <<"m", "2">>,
       to |-> "SWAP.WAX", address |-> "dave", dest_memo |-> NoMemo],
      [deposit_address |-> "X", memo |-> <<"m", "1">>,
       to |-> NULL, address |-> NULL, dest_memo |-> NoMemo],
      [deposit_address |-> "X", memo |-> <<"h", "i">>,
       to |-> NULL, address |-> NULL, dest_memo |-> NoMemo],
      [deposit_address |-> "Z", memo |-> <<"m", "3">>,
       to |-> NULL, address |-> NULL, dest_memo |-> NoMemo],
      [deposit_address |-> "Y", memo |-> NoMemo,
       to |-> NULL, address |-> NULL, dest_memo |-> NoMemo],
      [deposit_address |-> "Y", memo |-> <<"m", "1">>,
       to |-> NULL, address |-> NULL, dest_memo |-> NoMemo] }

\* C16: a Deposit with an address is routed by the AddressAccountMap row of
\* its coin and address; a Deposit with a memo uses only a row whose
\* deposit_memo equals the memo; a Deposit that no row matches is invalid.
C16_AddressRouting ==
    \A dep \in DepositIds : \A ex \in MapExamples :
        ( /\ deposits[dep].coin = "LTC" /\ deposits[dep].address = ex.deposit_address
          /\ deposits[dep].memo = ex.memo )
        => IF ex.to = NULL
           THEN deposits[dep].status \in {"new", "inv"}
           ELSE /\ deposits[dep].status \in {"new", "mapped"}
                /\ deposits[dep].status = "mapped"
                     => /\ deposits[dep].convert_to = ex.to
                        /\ deposits[dep].convert_dest_address = ex.address
                        /\ deposits[dep].convert_dest_memo = ex.dest_memo

C16_Witness ==
    /\ \E dep \in DepositIds :
          /\ deposits[dep].address = "Z" /\ deposits[dep].memo = <<"m", "2">>
          /\ deposits[dep].status = "mapped" /\ deposits[dep].convert_dest_address = "dave"
          /\ \E t \in TaskIds : tasks[t].pc = "gone"

\* C13: when the Mover raises AccountNotFound in convert, the attempt ends as
\* ConvertInvalid without a send and without a Conversion, and its handling
\* leaves the Deposit in status inv.
C13_AccountNotFoundIsInvalid ==
    [][ \A t \in TaskIds :
          (tasks[t].kind = "convert_deposit" /\ tasks[t].mover = "AccountNotFound" /\ Handled(t))
          => /\ tasks[t].exc = "ConvertInvalid"
             /\ tasks[t].s = NULL
             /\ deposits'[tasks[t].dep].status = "inv"
             /\ convs' = convs ]_vars

\* C13 witness: a convert attempt ended on AccountNotFound and the Deposit is
\* in status inv without a Conversion.
C13_Witness ==
    \E dep \in DepositIds :
        /\ deposits[dep].status = "inv" /\ convs[dep] = 0 /\ sends[dep] = 0
        /\ deposits[dep].convert_to # NULL
        /\ \E t \in TaskIds : tasks[t].pc = "gone"

\* C14: when a check or convert attempt ended with an exception that is
\* neither ConvertInvalid nor Locked, its handling leaves the Deposit in
\* status err with a non-empty error_reason.
C14_OtherExceptionIsErr ==
    [][ \A t \in TaskIds :
          ( /\ tasks[t].kind \in {"check_deposit", "convert_deposit"}
            /\ tasks[t].pc = "done"
            /\ tasks[t].exc \notin {NULL, "Locked", "ConvertInvalid"}
            /\ Handled(t) )
          => /\ deposits'[tasks[t].dep].status = "err"
             /\ ~empty(deposits'[tasks[t].dep].error_reason) ]_vars

\* C17: amount_converted returns an amount to send and a fee that add up to
\* the converted amount A*R, in the program's own arithmetic; with a fee
\* percentage of 0 the amount to send is A*R and the fee is 0.
C17_SendPlusFeeIsConverted ==
    call.pc = "done" =>
        LET r == call.computed[1] IN
        /\ DecEq(Add(r.send_amount, r.ex_fee), Mul(call.amount, call.exchange_rate))
        /\ call.EX_FEE.c = 0 =>
              /\ DecEq(r.send_amount, Mul(call.amount, call.exchange_rate))
              /\ r.ex_fee.c = 0

\* a stored Conversion of the Deposit of amount 10 at rate 1 and fee 1 %
Example18 ==
    /\ call.pc = "done" /\ call.conversion # <<>>
    /\ call.amount = Dec(10, 0) /\ call.exchange_rate = Dec(1, 0) /\ call.EX_FEE = Dec(1, 0)

C19_RefundDestination ==
    call.pc = "done" =>
        LET d == call.arg IN
        /\ call.sent_to # <<>> =>
              call.sent_to[1] = IF call.return_to \notin {NULL, ""} THEN call.return_to
                                ELSE IF d.address \notin {NULL, ""} THEN d.address
                                ELSE d.from_account
        /\ (call.return_to \in {NULL, ""} /\ d.address \in {NULL, ""}
               /\ d.from_account \in {NULL, ""})
              => call.exc # NULL /\ call.sent_to = <<>> /\ call.deposit = d
        /\ (call.exc = NULL) => (call.sent_to # <<>> /\ call.sent_to[1] \notin {NULL, ""})

C19_Witness ==
    /\ call.pc = "done" /\ call.return_to = "" /\ call.arg.address = "X"
    /\ call.arg.from_account = "alice" /\ call.sent_to = <<"X">>
    /\ call.deposit.status = "refund"

\* C20: the batch scanner terminates for a coin: load_batch is not called
\* again once a batch held fewer than batch raw records or the raw records
\* loaded have reached tx_count, and the loop of load_txs ends once the
\* records are exhausted.
C20_ScannerTerminates ==
    /\ [][ (call.pc = "import" /\ call'.pc = "loaded")
             => (call.last_n >= ScanBatch /\ call.txs_loaded < tx_count) ]_vars
    /\ <>(call.pc = "done")

C20_Witness ==
    /\ call.pc = "done" /\ call.offset > ScanBatch /\ call.txs_loaded >= tx_count
    /\ call.imports > 1

C22_DeadApiSkipsOneCoin ==
    call.pc = "done" => call.visited = 1..NumCoins

C22_Witness ==
    /\ call.pc = "done" /\ 1 \in call.dead /\ NumCoins \in call.got

\* C23: a wrapped function that keeps failing is called at most
\* max_retries + 1 times, each time with the arguments of the first call,
\* and then its exception reaches the caller; when a call succeeds its result
\* is returned and the function is not called again.
C23_BoundedRetries ==
    /\ Len(call.attempts) <= call.max_retries + 1
    /\ \A i \in 1..Len(call.attempts) :
          /\ call.attempts[i].kwargs = FirstKwargs
          /\ call.attempts[i].outcome = "ok" => i = Len(call.attempts) /\ call.pc = "returned"
    /\ call.pc = "returned" =>
          call.result = "value" /\ call.attempts[Len(call.attempts)].outcome = "ok"
    /\ call.pc = "raised" =>
          /\ call.result = call.attempts[Len(call.attempts)].outcome
          /\ call.result \notin call.fail_on => Len(call.attempts) = call.max_retries + 1
    /\ (call.pc = "call" /\ call.attempts # <<>>) =>
          call.attempts[Len(call.attempts)].outcome \notin call.fail_on \cup {"ok"}

C23_Witness ==
    /\ call.pc = "raised" /\ call.max_retries = MaxRetries
    /\ Len(call.attempts) = MaxRetries + 1 /\ call.result = "ConnectionError"

\* C24: an exception of a kind listed in fail_on is never retried: the call
\* that raised it is the last one, and the exception reaches the caller
\* whatever is left of the retry budget.
C24_FailOnIsNotRetried ==
    \A i \in 1..Len(call.attempts) :
        call.attempts[i].outcome \in call.fail_on
            => /\ i = Len(call.attempts)
               /\ call.pc = "raised" /\ call.result = call.attempts[i].outcome

C24_Witness ==
    /\ call.pc = "raised" /\ call.result = "DeadAPIError" /\ call.fail_on = {"DeadAPIError"}
    /\ Len(call.attempts) = 1 /\ call.max_retries = MaxRetries

\* C25: reloading the handlers again, with the Coin table unchanged and the
\* modules loading as they did the last time, leaves the registry as it was:
\* the same symbols, each with the same loaders and managers, none twice.
C25_ReloadIsIdempotent ==
    [][ (call.reloads > 0 /\ call'.env = call.env /\ call'.coins = call.coins)
            => /\ call'.handlers = call.handlers
               /\ call'.handlers_loaded = call.handlers_loaded
               /\ \A sym \in DOMAIN call'.handlers :
                     /\ Len(call'.handlers[sym].loaders) <= 1
                     /\ Len(call'.handlers[sym].managers) <= 1 ]_vars

\* a second reload found the registry filled
C25_Witness ==
    /\ call.repeated /\ call.env.synced /\ call.handlers_loaded
    /\ \A m \in HandlerModules : call.env.out[m] = "ok"
    /\ DOMAIN call.handlers = CoinSymbols
    /\ \E sym \in CoinSymbols : call.handlers[sym].loaders = <<"Bitcoin">>
    /\ \E sym \in CoinSymbols : call.handlers[sym].loaders = <<"Golos">>

\* C26: after a reload in which modules failed, the registry is marked
\* loaded and every coin of every module that did not fail has that module's
\* loader and manager.
C26_FailingHandlerIsSkipped ==
    (call.reloads > 0 /\ call.env.synced) =>
        /\ call.handlers_loaded
        /\ \A m \in HandlerModules : call.env.out[m] = "ok" =>
              \A sym \in CoinsOfType(call.coins, COIN_TYPE(m)) :
                  /\ sym \in DOMAIN call.handlers
                  /\ call.handlers[sym].loaders = <<m>>
                  /\ call.handlers[sym].managers = <<m>>

C26_Witness ==
    /\ call.reloads > 0 /\ call.env.synced /\ call.handlers_loaded
    /\ call.env.out["SteemEngine"] = "import" /\ call.env.out["Bitcoin"] = "ok"
    /\ call.env.out["Golos"] = "ok"
    /\ call.coins["BTC"] = "bitcoind" /\ call.coins["ENG"] = "steemengine"
    /\ "ENG" \notin DOMAIN call.handlers
    /\ call.handlers["BTC"] = [loaders |-> <<"Bitcoin">>, managers |-> <<"Bitcoin">>]

\* C27: when the low-balance notification fails while NotEnoughBalance is
\* handled, the attempt is still a deferred one: after the attempt and its
\* handling the Deposit is in status mapped.
C27_NotifyFailureStaysMapped ==
    [][ \A t \in TaskIds :
          (/\ tasks[t].kind = "convert_deposit" /\ tasks[t].mover = "NotEnoughBalance"
           /\ tasks[t].notify = "Exception" /\ Handled(t))
          => deposits'[tasks[t].dep].status = "mapped" ]_vars

\* a conversion of Deposit 1 was deferred: the Mover was down or out of funds
Deferred ==
    \E t \in TaskIds :
        /\ tasks[t].kind = "convert_deposit" /\ tasks[t].dep = 1 /\ tasks[t].pc = "done"
        /\ tasks[t].mover \in {"unhealthy", "NotEnoughBalance"}

\* C28: a Deposit whose conversion was deferred is converted by a later run,
\* once the Mover has recovered, as long as a run can still be queued.
C28_DeferredIsConvertedLater ==
    [](Deferred => <>(deposits[1].status = "conv" \/ Len(tasks) = MaxTasks))

\* the step is a handler giving up its wait for the result of task t
TimesOut(t) ==
    /\ tasks[t].pc \notin {"done", "gone"} /\ ~tasks[t].task_read
    /\ tasks'[t].task_read

\* C29: when the wait for a task's result times out, the Deposit of that task
\* is marked err, and no other Deposit, no other task, no lock, no Conversion
\* and no transfer is changed.
C29_TimeoutIsLocal ==
    [][ \A t \in TaskIds : TimesOut(t) =>
          /\ deposits'[tasks[t].dep].status = "err"
          /\ \A o \in DepositIds \ {tasks[t].dep} : deposits'[o] = deposits[o]
          /\ Len(tasks') = Len(tasks)
          /\ \A u \in TaskIds \ {t} : tasks'[u] = tasks[u]
          /\ tasks'[t].pc = tasks[t].pc /\ tasks'[t].d = tasks[t].d
          /\ UNCHANGED <<locks, convs, sends, refunds>> ]_vars

\* a wait has timed out while a task of the other Deposit is in flight
C29_Witness ==
    \E t, u \in TaskIds :
        /\ tasks[t].task_read /\ tasks[t].pc \in {"queued", "read", "locked", "sent"}
        /\ deposits[tasks[t].dep].status = "err"
        /\ tasks[u].dep # tasks[t].dep /\ ~tasks[u].task_read
        /\ tasks[u].pc \in {"read", "locked", "sent"}
        /\ deposits[tasks[u].dep].status \in {"new", "mapped"}

\* the Deposit has a Conversion and is in status new again
ResetWithConversion(dep) ==
    convs[dep] > 0 /\ deposits[dep].status = "new"

\* C30: a Deposit that has a Conversion and was set back to new is not
\* mapped, and no transfer is sent for it.
C30_ConvertedIsNotReprocessed ==
    [][ \A dep \in DepositIds : ResetWithConversion(dep) =>
          /\ deposits'[dep].status # "mapped"
          /\ sends'[dep] = sends[dep] ]_vars

\* the Mover operations that ran so far, as a set of positions
IssuePositions == { i \in 1..Len(call.calls) : call.calls[i].op = "issue" }

\* C31: convert has the Mover's issue called only for a destination coin
\* with can_issue, and only directly after a send that raised
\* NotEnoughBalance; for a coin without can_issue the only Mover operation
\* called is send.
C31_IssueOnlyAfterFailedSend ==
    /\ \A i \in IssuePositions :
         /\ call.can_issue
         /\ i > 1
         /\ call.calls[i - 1].op = "send"
         /\ call.calls[i - 1].outcome = "NotEnoughBalance"
    /\ ~call.can_issue => \A i \in 1..Len(call.calls) : call.calls[i].op = "send"

C31_Witness ==
    /\ call.pc = "sent"
    /\ call.send_type = "issue"
    /\ Len(call.calls) = 3
    /\ call.calls[2].op = "issue"

\* the convert_deposit task t, holding a mapped Deposit, runs as a dry run
\* in this step
DryRunStep(t) ==
    /\ call.dry
    /\ tasks[t].kind = "convert_deposit"
    /\ tasks[t].pc = "locked"
    /\ tasks[t].d.status = "mapped"
    /\ tasks'[t].pc # "locked"

\* C32: a dry run of convert_deposit on a mapped Deposit calls no Mover
\* operation (no transfer is counted, the task never waits in the state
\* after a send), creates no Conversion and writes no field of the Deposit.
C32_DryRunChangesNothing ==
    [][ \A t \in TaskIds : DryRunStep(t) =>
          /\ deposits' = deposits
          /\ convs' = convs
          /\ sends' = sends
          /\ tasks'[t].pc # "sent"
          /\ tasks'[t].mover = NULL ]_vars

C32_Witness ==
    /\ call.dry
    /\ \E t \in TaskIds :
         /\ tasks[t].kind = "convert_deposit"
         /\ tasks[t].pc = "done"
         /\ tasks[t].exc = NULL
         /\ tasks[t].tl_deposit.status = "mapped"
         /\ ~empty(tasks[t].tl_deposit.convert_to)
         /\ deposits[tasks[t].dep] = tasks[t].tl_deposit

\* the first n records of the history
Prefix(history, n) == SubSeq(history, 1, n)

\* C33: over a history that does not change, the offsets requested are 0,
\* batch, 2*batch, ...; the raw records fetched are a prefix of the history,
\* each once and in order; the records yielded are the cleaned records of
\* the fetched ones in order, all of them once _list_txs has ended, the last
\* short batch included.
C33_BatchesTileTheHistory ==
    /\ \A i \in 1..Len(call.requested) : call.requested[i] = (i - 1) * ScanBatch
    /\ call.fetched = Prefix(call.history, Len(call.fetched))
    /\ mock_clean_txs(call.fetched) = call.yielded \o call.txs
    /\ call.pc = "done" =>
         /\ call.yielded = mock_clean_txs(call.fetched)
         /\ \/ Len(call.fetched) = Len(call.history)
            \/ Len(call.fetched) >= tx_count

\* the scan ended on a short last batch that held a record of the coin
C33_Witness ==
    /\ call.pc = "done"
    /\ Len(call.requested) > 2
    /\ Len(call.fetched) = Len(call.history)
    /\ Len(call.history) % ScanBatch # 0
    /\ call.yielded # <<>>
    /\ call.yielded[Len(call.yielded)].place = Len(call.history)
    /\ Len(call.yielded) < Len(call.fetched)

HasAccount(c) == ~empty(c.our_account)

\* C34: load on a loader with need_account ends normally with loaded set,
\* and coins and symbols hold exactly the configured coins whose
\* our_account is not empty.
C34_LoadDropsCoinsWithoutAccount ==
    (call.need_account /\ call.pc \in {"returned", "raised"}) =>
        /\ call.pc = "returned"
        /\ call.loaded
        /\ call.coins = SelectSeq(call.configured, HasAccount)
        /\ call.symbols = [i \in 1..Len(call.coins) |-> call.coins[i].symbol]

\* C35: no Deposit has both a conversion transfer and a refund transfer
\* that succeeded.
C35_NeverConvertedAndRefunded ==
    \A dep \in DepositIds : ~(sends[dep] > 0 /\ refunds[dep] > 0)

\* C36: no Deposit has more than one refund transfer that was sent.
C36_AtMostOneRefund ==
    \A dep \in DepositIds : refunds[dep] <= 1

\* C37: a Deposit in status conv has a Conversion row; in particular a
\* failed write of the Conversion does not leave the Deposit in conv.
C37_ConvHasConversion ==
    \A dep \in DepositIds : deposits[dep].status = "conv" => convs[dep] > 0

\* the write of the Conversion failed after the transfer, with no
\* Conversion in the table
C37_Witness ==
    \E t \in TaskIds :
        /\ tasks[t].kind = "convert_deposit"
        /\ tasks[t].pc = "done"
        /\ tasks[t].exc = "DatabaseError"
        /\ sends[tasks[t].dep] > 0
        /\ convs[tasks[t].dep] = 0
        /\ deposits[tasks[t].dep].status = "mapped"

\* C38: a Deposit in status mapped has a non-empty convert_to and a
\* non-empty convert_dest_address.
C38_MappedHasDestination ==
    \A dep \in DepositIds :
        deposits[dep].status = "mapped" =>
            /\ ~empty(deposits[dep].convert_to)
            /\ ~empty(deposits[dep].convert_dest_address)

\* check_deposit has just mapped a Deposit it was queued for in status new
C38_Witness ==
    \E t \in TaskIds :
        /\ tasks[t].kind = "check_deposit"
        /\ tasks[t].pc = "done"
        /\ tasks[t].exc = NULL
        /\ tasks[t].tl_deposit.status = "new"
        /\ empty(tasks[t].tl_deposit.convert_to)
        /\ deposits[tasks[t].dep].status = "mapped"

\* the table holds a Deposit row for the record tx
Stored(tx) ==
    \E j \in 1..Len(deposits) : Key(deposits[j]) = Key(NewDeposit(tx))

\* C39: when a scan has gone through its loader's records, every record
\* the loader yielded has a Deposit row with its (txid, coin, vout), a record that shares its txid
\* with another stored row included.
C39_EveryNewKeyIsStored ==
    \A n \in 1..Len(scanners) :
        (scanners[n].pc = "done" /\ scanners[n].pos > Len(Stream(scanners[n].symbol))) =>
            \A i \in 1..Len(Stream(scanners[n].symbol)) :
                Stored(Stream(scanners[n].symbol)[i])

====
